---- MODULE Spec2Model ----
(***************************************************************************)
(* Verification model of bemol (Blade Element Momentum solver).            *)
(*                                                                         *)
(* Real numbers are fixed-point integers with SCALE units per 1.0, angles  *)
(* are in radians.  Each group of operations has its own specification     *)
(* over the same variables:                                                *)
(*   SpecCorr       construction of solvers and their Corrections bundle   *)
(*   SpecKnudsen    calls and restarts of one Knudsen DynamicInflow filter *)
(*   SpecCt         calls of BaseBEM.CtMomentum                            *)
(*   SpecUncoupled  calls of NingUncoupled.solve, brentq step by step      *)
(*   SpecDynamic    one call of BaseBEM.dynamic on a NingUncoupled solver  *)
(*   SpecCoupled    one call of NingCoupled.solve                          *)
(*   SpecSteady     one call of BaseBEM.steady on either Ning solver       *)
(*   SpecCycle      one call of BaseBEM.cycle on a NingUncoupled solver    *)
(*   SpecUpdate     one call of BaseBEM.update on a NingUncoupled solver   *)
(*   SpecDummy      one call of a Dummy correction                         *)
(*   SpecThrust     one call of BaseBEM.CT                                 *)
(*   SpecSeries     solve calls, then one call of BaseBEM.dynamic          *)
(*   SpecInductions the inductions of NingUncoupled.residuals              *)
(***************************************************************************)
EXTENDS Integers, Sequences, FiniteSets, TLC

(***************************************************************************)
(* Bounds of the model                                                     *)
(***************************************************************************)
\* longest corrections list given to a constructor
MaxItems == 2
\* number of operations applied to one Knudsen filter
MaxCalls == 3
\* number of calls of CtMomentum in one run
MaxCtCalls == 2
\* number of solve calls on one solver
MaxSolves == 1

(***************************************************************************)
(* Fixed-point arithmetic: a float x is the integer x*SCALE, products and  *)
(* quotients rounded down                                                  *)
(***************************************************************************)
SCALE == 1000
ONE == SCALE

\* the value of a one-element set: Only({e(v) : v \in {x}}) is e(x), with x
\* evaluated once
Only(S) == CHOOSE v \in S : TRUE

Abs(x) == IF x < 0 THEN -x ELSE x
Max(x, y) == IF x >= y THEN x ELSE y
Min(x, y) == IF x <= y THEN x ELSE y
\* np.sign
Sign(x) == IF x > 0 THEN 1 ELSE IF x < 0 THEN -1 ELSE 0
\* n/d rounded toward zero, d # 0
Quot(n, d) == Sign(n) * Sign(d) * (Abs(n) \div Abs(d))
\* x*y and x/y of two floats, y # 0
Mul(x, y) == (x * y) \div SCALE
Div(x, y) == (x * SCALE) \div y

\* ning.py : the angle constants, in radians
PI == 3142
PI_HALF == 1571
PI_QUARTER == 785
TWO_PI == 6283

\* np.sin : the angle is reduced to [-pi/2, pi/2], then the series
\* x - x^3/3! + x^5/5! - x^7/7! in Horner form, y2 = y*y
SinWrap(y) == IF y > PI THEN y - TWO_PI ELSE y
SinFold(z) == IF z > PI_HALF THEN PI - z ELSE IF z < -PI_HALF THEN -PI - z ELSE z
SinReduce(x) == SinFold(SinWrap(x % TWO_PI))
SinSeries(y, y2) ==
    Mul(y, ONE - Mul(y2 \div 6, ONE - Mul(y2 \div 20, ONE - y2 \div 42)))
SinClamp(v) == IF v > ONE THEN ONE ELSE IF v < -ONE THEN -ONE ELSE v
Sin(x) == Only({SinClamp(v) : v \in {SinSeries(y, Mul(y, y)) : y \in {SinReduce(x)}}})
\* np.cos : np.cos(PI_HALF) is 6.1e-17 and not 0.0, so a result of zero is
\* the smallest positive float
CosNonZero(c) == IF c = 0 THEN 1 ELSE c
Cos(x) == Only({CosNonZero(c) : c \in {Sin(x + PI_HALF)}})

\* np.sqrt of a float x >= 0 : the integer square root of x*SCALE, by bisection
\* of [lo, hi) with t = <<x*SCALE, lo, hi>>
SqrtIter[t \in Nat \X Nat \X Nat] ==
    IF t[3] - t[2] <= 1 THEN t[2]
    ELSE LET mid == (t[2] + t[3]) \div 2
         IN IF mid * mid <= t[1] THEN SqrtIter[<<t[1], mid, t[3]>>]
                                ELSE SqrtIter[<<t[1], t[2], mid>>]
Sqrt(x) == SqrtIter[<<x * SCALE, 0, 46341>>]

\* the largest magnitude a float of the solvers takes (the +-inf of numpy)
BIG == 1000000
Sat(v) == IF v > BIG THEN BIG ELSE IF v < -BIG THEN -BIG ELSE v

\* x*y of two floats of any magnitude up to BIG, without overflow
FMulSat(x, y) == Sat((x \div SCALE) * y + ((x % SCALE) * y) \div SCALE)
FMul(x, y) == Only({FMulSat(Sat(u), Sat(v)) : u \in {x}, v \in {y}})

\* x/y of two floats of any magnitude up to BIG; numpy gives +-inf for x/0
FDivPos(x, y) ==
    IF x \div y >= SCALE THEN BIG
    ELSE IF x \div y < -SCALE THEN -BIG
    ELSE (x \div y) * SCALE + ((x % y) * SCALE) \div y
FDivSat(x, y) ==
    IF y = 0 THEN Sign(x) * BIG
    ELSE IF y < 0 THEN FDivPos(-x, -y) ELSE FDivPos(x, y)
FDiv(x, y) == Only({FDivSat(Sat(u), Sat(v)) : u \in {x}, v \in {y}})

\* np.arctan2(y, x) : for y >= 0 and x > 0 the angle in [0, pi/2] found by
\* bisection of [lo, hi) on y*cos >= x*sin, t = <<y, x, lo, hi>>; the other
\* quadrants by symmetry
AtanIter[t \in Int \X Int \X Int \X Int] ==
    IF t[4] - t[3] <= 1 THEN t[3]
    ELSE LET mid == (t[3] + t[4]) \div 2
         IN IF t[1] * Cos(mid) >= t[2] * Sin(mid)
            THEN AtanIter[<<t[1], t[2], mid, t[4]>>]
            ELSE AtanIter[<<t[1], t[2], t[3], mid>>]
AtanAbs(y, x) ==
    IF x > 0 THEN AtanIter[<<y, x, 0, PI_HALF>>]
    ELSE IF x = 0 THEN PI_HALF
    ELSE PI - AtanIter[<<y, -x, 0, PI_HALF>>]
AtanSat(y, x) ==
    IF x = 0 /\ y = 0 THEN 0
    ELSE IF y >= 0 THEN AtanAbs(y, x) ELSE -AtanAbs(-y, x)
Atan2(y, x) == Only({AtanSat(Sat(u), Sat(v)) : u \in {y}, v \in {x}})

(***************************************************************************)
(* airfoil.py : BaseAirfoil ; section.py : Section                         *)
(***************************************************************************)
\* a polar: angles of attack (radians) with the lift and drag coefficients
Foil == [alpha |-> <<-3200, -1600, -300, 0, 300, 1600, 3200>>,
         cl    |-> <<0, 0, -1000, 300, 1500, 0, 0>>,
         cd    |-> <<20, 1300, 50, 10, 50, 1300, 20>>]

\* interp1d raises ValueError outside the range of the polar
InRange(xs, x) == xs[1] <= x /\ x <= xs[Len(xs)]
\* interp1d, linear, on the segment i of the table
InterpAt(xs, ys, x, i) ==
    ys[i] + ((ys[i + 1] - ys[i]) * (x - xs[i])) \div (xs[i + 1] - xs[i])
Interp(xs, ys, x) ==
    Only({InterpAt(xs, ys, x, i) :
            i \in {CHOOSE j \in 1..(Len(xs) - 1) : xs[j] <= x /\ x <= xs[j + 1]}})

\* BaseAirfoil.cl and BaseAirfoil.cd
AirfoilCl(airfoil, aoa) == Interp(airfoil.alpha, airfoil.cl, aoa)
AirfoilCd(airfoil, aoa) == Interp(airfoil.alpha, airfoil.cd, aoa)

\* Section.__init__
Section(radius, twist, chord, airfoil) ==
    [radius |-> radius, twist |-> twist, chord |-> chord, airfoil |-> airfoil]

(***************************************************************************)
(* secondary.py : the correction classes                                   *)
(***************************************************************************)
\* classes of module secondary in inspect.getmembers order (sorted by name)
SecondaryClasses ==
    <<"DynamicInflow", "HubTipLoss", "SkewAngle", "TurbulentWakeState", "YawModel">>

\* name[0].lower() + name[1:]
LowerFirst(name) ==
    CASE name = "DynamicInflow"      -> "dynamicInflow"
      [] name = "HubTipLoss"         -> "hubTipLoss"
      [] name = "SkewAngle"          -> "skewAngle"
      [] name = "TurbulentWakeState" -> "turbulentWakeState"
      [] name = "YawModel"           -> "yawModel"
      [] OTHER                       -> name

\* the five attribute names the tests expect on a bundle
CategoryNames ==
    {"hubTipLoss", "skewAngle", "dynamicInflow", "yawModel", "turbulentWakeState"}

\* an object of the program: qualname is type(obj).__qualname__ split at the
\* dots, id its identity; isType tells a class from an instance (id 0: classes)
Obj(qualname, id, isType) == [qualname |-> qualname, id |-> id, isType |-> isType]

\* obj.Dummy() of a category class: a fresh instance
DummyOf(className, id) == Obj(<<className, "Dummy">>, id, FALSE)

\* effect_name in correction_name (substring test on the qualified name)
NameIn(effect_name, correction_name) ==
    \E i \in 1..Len(correction_name) : correction_name[i] = effect_name

\* objects a caller can put into a corrections selection
Prandtl     == Obj(<<"HubTipLoss", "Prandtl">>, 0, TRUE)
PrandtlInst == Obj(<<"HubTipLoss", "Prandtl">>, 1, FALSE)
Burton      == Obj(<<"SkewAngle", "Burton">>, 0, TRUE)
Knudsen     == Obj(<<"DynamicInflow", "Knudsen">>, 0, TRUE)
KnudsenA    == Obj(<<"DynamicInflow", "Knudsen">>, 2, FALSE)
\* an object that is no correction: the float 3.0
PlainFloat  == Obj(<<"float">>, 3, FALSE)
KnudsenB    == Obj(<<"DynamicInflow", "Knudsen">>, 3, FALSE)
Foreign     == Obj(<<"dict">>, 4, FALSE)
UserItems   == {Prandtl, PrandtlInst, Burton, Knudsen, KnudsenA, KnudsenB, Foreign}
\* the identity of the object the k-th category loop of a constructor makes:
\* obj.Dummy() for i = 0, corr() of the i-th item of the list otherwise;
\* owner is 1 for the solver and 2 for the solver it holds
FreshId(owner, k, i) == 100 * owner + 10 * k + i

VARIABLES
    solverKind,     \* "none" | "BaseBEM" | "NingUncoupled" | "NingCoupled"
    selection,      \* the corrections argument given to the constructor
    passing,        \* "positional" | "keyword" | "omitted"
    corrections,    \* solver.corrections.__dict__
    uncoupled,      \* solver._uncoupled.corrections.__dict__ (NingCoupled)
    dyn,            \* fields of the installed DynamicInflow instance
    kn,             \* the last operation applied to the Knudsen filter
    calls,          \* number of operations applied to the filter so far
    ct,             \* the last call of CtMomentum and its result
    stdout,         \* number of diagnostic lines printed so far
    ning,           \* fields of the NingUncoupled solver
    args,           \* arguments of the solve call in progress
    pc,             \* where that solve call stands
    ev,             \* the residual evaluation asked for, and the last one made
    loc,            \* locals of solve
    bq,             \* locals of brentq
    out,            \* how the last solve call ended
    solves,         \* number of solve calls so far
    dynamicArgs,    \* arguments of the call of dynamic
    sweep,          \* locals of dynamic
    forces,         \* the array forces of dynamic
    factors,        \* the array factors of dynamic
    stored,         \* the indices [i,ii] dynamic has assigned
    trace,          \* the calls dynamic has made, in order
    dpc,            \* where the call of dynamic stands
    co,             \* fields of the NingCoupled solver
    cargs,          \* arguments of the NingCoupled.solve call in progress
    res,            \* the result of minimize
    cout,           \* how the last NingCoupled.solve call ended
    cpc,            \* where that call stands
    sargs,          \* arguments of the call of steady
    sloc,           \* locals of steady
    spc,            \* where the call of steady stands
    cyargs,         \* arguments of the call of cycle
    cyloc,          \* locals of cycle
    cypc,           \* where the call of cycle stands
    log,            \* the calls steady and cycle have made, in order
    upd,            \* the last call of update and how it ended
    dm              \* the last call of a Dummy correction and its result

corrVars == <<solverKind, selection, passing, corrections, uncoupled>>
knVars == <<dyn, kn, calls>>
ctVars == <<ct, stdout>>
unVars == <<ning, args, pc, ev, loc, bq, out, solves>>
swVars == <<dynamicArgs, sweep, forces, factors, stored, trace, dpc>>
coVars == <<co, cargs, res, cout, cpc>>
drVars == <<sargs, sloc, spc, cyargs, cyloc, cypc, log>>
miscVars == <<upd, dm>>
vars == <<corrVars, knVars, ctVars, unVars, swVars, coVars, drVars, miscVars>>

(***************************************************************************)
(* secondary.py : DynamicInflow.Knudsen                                    *)
(***************************************************************************)
\* default arguments of Knudsen.__init__
DefaultAlphaDynamic == 300
DefaultTauScale == 3000

\* Knudsen.__init__
KnudsenInit(alphaDynamic, tauScale) ==
    [variant |-> "Knudsen", _alpha0 |-> alphaDynamic,
     alphaDynamic |-> alphaDynamic, tauScale |-> tauScale]

\* DynamicInflow.Dummy.__init__ : no fields
DummyInflow ==
    [variant |-> "Dummy", _alpha0 |-> 0, alphaDynamic |-> 0, tauScale |-> 0]

\* kappa = 1. / (self.tauScale * radius / max(1.0,Ux) )
KnudsenKappa(self, Ux, radius) ==
    Div(ONE, Div(Mul(self.tauScale, radius), Max(ONE, Ux)))

\* as KnudsenStore, but the filter keeps the value it had
KnudsenStoreNothing(self, alphaDynamic) ==
    [raised |-> FALSE, ret |-> alphaDynamic, self |-> self]

\* alphaDynamic = tStep*kappa*(axialInduction - self.alphaDynamic) + self.alphaDynamic
\* ; self.alphaDynamic = alphaDynamic ; return alphaDynamic
KnudsenStore(self, alphaDynamic) ==
    [raised |-> FALSE, ret |-> alphaDynamic,
     self |-> [self EXCEPT !.alphaDynamic = alphaDynamic]]
\* as KnudsenFilter, but every call starts from the initial value of the filter
KnudsenFilterRestarted(self, axialInduction, Ux, radius, tStep) ==
    Only({KnudsenStore(self, alphaDynamic) :
            alphaDynamic \in {Mul(Mul(tStep, KnudsenKappa(self, Ux, radius)),
                                  axialInduction - self._alpha0)
                              + self._alpha0}})
KnudsenFilter(self, axialInduction, Ux, radius, tStep) ==
    Only({KnudsenStore(self, alphaDynamic) :
            alphaDynamic \in {Mul(Mul(tStep, KnudsenKappa(self, Ux, radius)),
                                  axialInduction - self.alphaDynamic)
                              + self.alphaDynamic}})

\* as KnudsenCall, without the test of the timestep
KnudsenCallNoGuard(self, axialInduction, Ux, radius, tStep) ==
    KnudsenFilter(self, axialInduction, Ux, radius, tStep)

\* Knudsen.__call__ : raised tells that the call ended in ValueError
KnudsenCall(self, axialInduction, Ux, radius, tStep) ==
    IF tStep = 0
    THEN [raised |-> TRUE, ret |-> 0, self |-> self]
    ELSE KnudsenFilter(self, axialInduction, Ux, radius, tStep)

\* as KnudsenRestart, but back to the default of the constructor
KnudsenRestartDefault(self) == [self EXCEPT !.alphaDynamic = DefaultAlphaDynamic]

\* Knudsen.restart
KnudsenRestart(self) == [self EXCEPT !.alphaDynamic = self._alpha0]

\* DynamicInflow.Dummy.__call__ and the dispatch on the installed instance
DynamicInflowCall(self, axialInduction, Ux, radius, tStep) ==
    IF self.variant = "Knudsen"
    THEN KnudsenCall(self, axialInduction, Ux, radius, tStep)
    ELSE [raised |-> FALSE, ret |-> axialInduction, self |-> self]

(***************************************************************************)
(* bem.py : BaseBEM.CT, BaseBEM.CtMomentum ; secondary.py :                *)
(* TurbulentWakeState                                                      *)
(***************************************************************************)
\* as CT, by the formula of its docstring, Ct = 4a(a-1)
CTOfDocstring(a, F, chi) == Mul(Mul(4 * ONE, a), a - ONE)

\* BaseBEM.CT
CT(a, F, chi) ==
    Mul(Mul(Mul(4 * ONE, a), F), Sqrt(ONE - Mul(a, Mul(2 * ONE, Cos(chi)) - a)))

\* default arguments of TurbulentWakeState.Buhl.__init__
BuhlBeta == 400
BuhlDa == 20

\* TurbulentWakeState.Buhl.__call__ : c holds f0, fp0 and f1
BuhlK2(c) ==
    Div(c.f1 - c.f0 - Mul(c.fp0, ONE - BuhlBeta), Mul(ONE - BuhlBeta, ONE - BuhlBeta))
BuhlK1(c, k2) == c.fp0 - Mul(Mul(2 * ONE, k2), BuhlBeta)
BuhlK0(c, k1, k2) == c.f1 - k1 - k2
BuhlPoly(axialInduction, k) ==
    k.k0 + Mul(k.k1, axialInduction) + Mul(k.k2, Mul(axialInduction, axialInduction))
BuhlCoeffs(c) ==
    Only({[k0 |-> BuhlK0(c, k.k1, k.k2), k1 |-> k.k1, k2 |-> k.k2] :
            k \in {[k1 |-> BuhlK1(c, k2), k2 |-> k2] : k2 \in {BuhlK2(c)}}})
Buhl(axialInduction, lossFactor, skewAngle) ==
    Only({BuhlPoly(axialInduction, BuhlCoeffs(c)) :
            c \in {[f0  |-> CT(BuhlBeta, lossFactor, skewAngle),
                    fp0 |-> Div(CT(BuhlBeta + BuhlDa, lossFactor, skewAngle)
                                - CT(BuhlBeta - BuhlDa, lossFactor, skewAngle),
                                Mul(2 * ONE, BuhlDa)),
                    f1  |-> Mul(2 * ONE, Cos(skewAngle))]}})

\* self.corrections.turbulentWakeState(a,F,chi) : Dummy calls BaseBEM.CT
TurbulentWakeStateCall(variant, a, F, chi) ==
    IF variant = "Buhl" THEN Buhl(a, F, chi) ELSE CT(a, F, chi)

\* beta of CtMomentum
CtBeta == 400

\* as CtMomentum, with the propeller brake region starting at a = 1.0
CtMomentumBrakeAtOne(variant, a, aprime, F, chi) ==
    IF a <= CtBeta
    THEN [value |-> CT(a, F, chi), printed |-> 0, branch |-> "momentum"]
    ELSE IF a >= ONE
    THEN [value |-> Mul(Mul(Mul(Mul(4 * ONE, a), F), a - ONE), Cos(chi)),
          printed |-> 1, branch |-> "brake"]
    ELSE [value |-> TurbulentWakeStateCall(variant, a, F, chi),
          printed |-> 0, branch |-> "empirical"]

\* BaseBEM.CtMomentum : the value returned, the number of lines printed and
\* the branch taken
CtMomentum(variant, a, aprime, F, chi) ==
    IF a <= CtBeta
    THEN [value |-> CT(a, F, chi), printed |-> 0, branch |-> "momentum"]
    ELSE IF a > ONE
    THEN [value |-> Mul(Mul(Mul(Mul(4 * ONE, a), F), a - ONE), Cos(chi)),
          printed |-> 1, branch |-> "brake"]
    ELSE [value |-> TurbulentWakeStateCall(variant, a, F, chi),
          printed |-> 0, branch |-> "empirical"]

(***************************************************************************)
(* ning.py : NingUncoupled.__init__, NingUncoupled.residuals               *)
(***************************************************************************)
\* the rotor of the solvers: three blades
Rotor == [nBlades |-> 3, hubRadius |-> 2000, tipRadius |-> 60000]
\* rho of BaseBEM.__init__
DefaultRho == 1225

\* NingUncoupled.__init__
NingUncoupledInit(rotor, epsilon) ==
    [rotor |-> rotor, rho |-> DefaultRho, epsilon |-> epsilon,
     _Ux |-> 0, _Uy |-> 0, _axial_induction |-> 0, _tangential_induction |-> 0,
     _angle |-> 0, _funLift |-> Foil, _funDrag |-> Foil, _chord |-> 0, _radius |-> 0]

\* HubTipLoss.Dummy.__call__
HubTipLossDummy(radius, nBlades, hubRadius, tipRadius, inflowAngle) == ONE

\* maxAxialInd, maxTangentialInd
MaxAxialInd == 2000
MaxTangentialInd == 2000

\* residuals, lines 94-95 and the sine and cosine of the inflow angle
ResAero(self, inflowAngle) ==
    [sn   |-> Sin(inflowAngle), cs |-> Cos(inflowAngle),
     lift |-> AirfoilCl(self._funLift, inflowAngle - self._angle),
     drag |-> AirfoilCd(self._funDrag, inflowAngle - self._angle)]

\* Cx, Cy, F and sigmaPrime
ResCoeffs(self, inflowAngle, q) ==
    [Cx |-> FMul(q.lift, q.cs) + FMul(q.drag, q.sn),
     Cy |-> FMul(q.lift, q.sn) - FMul(q.drag, q.cs),
     F  |-> HubTipLossDummy(self._radius, self.rotor.nBlades, self.rotor.hubRadius,
                            self.rotor.tipRadius, inflowAngle),
     sigmaPrime |-> FDiv(self.rotor.nBlades * self._chord, FMul(TWO_PI, self._radius))]

\* kappa and kappaPrime; the divisor 4*F*sin*cos of kappaPrime is applied as
\* 4*F*sin and then cos, which keeps the smallest cosine from rounding the
\* product to zero
ResKappas(q, c) ==
    [kappa      |-> FDiv(FMul(c.sigmaPrime, c.Cx),
                         FMul(FMul(4 * ONE, c.F), FMul(q.sn, q.sn))),
     kappaPrime |-> FDiv(FDiv(FMul(c.sigmaPrime, c.Cy), FMul(FMul(4 * ONE, c.F), q.sn)),
                         q.cs)]

\* the empirical branch kappa > 2/3 of the momentum region, g = gamma1..3
AxialGamma(F, twoF_Kappa) ==
    [gamma1 |-> twoF_Kappa - (FDiv(10 * ONE, 9 * ONE) - F),
     gamma2 |-> twoF_Kappa - FMul(F, FDiv(4 * ONE, 3 * ONE) - F),
     gamma3 |-> twoF_Kappa - (FDiv(25 * ONE, 9 * ONE) - 2 * F)]
AxialEmpirical(self, g) ==
    IF Abs(g.gamma3) < self.epsilon
    THEN ONE - FDiv(ONE, 2 * Sqrt(g.gamma2))
    ELSE FDiv(g.gamma1 - Sqrt(Abs(g.gamma2)), g.gamma3)

\* axialInd and isValidSolution in the momentum region
AxialMomentum(self, F, kappa) ==
    IF kappa <= FDiv(2 * ONE, 3 * ONE)
    THEN [axialInd |-> FDiv(kappa, ONE + kappa), isValidSolution |-> ~(kappa < -ONE)]
    ELSE [axialInd |-> Only({AxialEmpirical(self, g) :
                               g \in {AxialGamma(F, FMul(FMul(2 * ONE, F), kappa))}}),
          isValidSolution |-> TRUE]

\* as AxialBrake, but without the test against maxAxialInd
AxialBrakeUnclamped(kappa) ==
    [axialInd |-> FDiv(kappa, kappa - ONE), isValidSolution |-> ~(kappa <= ONE)]

\* axialInd and isValidSolution in the propeller brake region
AxialBrake(kappa) ==
    IF kappa <= ONE
    THEN [axialInd |-> FDiv(kappa, kappa - ONE), isValidSolution |-> FALSE]
    ELSE [axialInd |-> Min(MaxAxialInd, FDiv(kappa, kappa - ONE)),
          isValidSolution |-> TRUE]

\* tangentialInd from the signed kappaPrime
TangentialClamp(t) ==
    IF Abs(t) > MaxTangentialInd THEN MaxTangentialInd * Sign(t) ELSE t
Tangential(kappaPrime) == Only({TangentialClamp(t) : t \in {FDiv(kappaPrime, ONE - kappaPrime)}})

\* isMomentumRegion
IsMomentumRegion(self, inflowAngle) ==
    (inflowAngle >= 0 /\ self._Ux >= 0) \/ (inflowAngle < 0 /\ self._Ux < 0)

\* lines 108-148 : the inductions, zero when the solution is not valid
ResPick(mom, ax, tangentialInd) ==
    [isMomentumRegion |-> mom, isValidSolution |-> ax.isValidSolution,
     axialInd      |-> IF ax.isValidSolution THEN ax.axialInd ELSE 0,
     tangentialInd |-> IF ax.isValidSolution THEN tangentialInd ELSE 0]
ResInductions(self, inflowAngle, c, k) ==
    Only({ResPick(IsMomentumRegion(self, inflowAngle), ax,
                  Tangential(IF self._Ux <= 0 THEN -k.kappaPrime ELSE k.kappaPrime)) :
            ax \in {IF IsMomentumRegion(self, inflowAngle)
                    THEN AxialMomentum(self, c.F, k.kappa) ELSE AxialBrake(k.kappa)}})

\* lines 150-155 : the value of the residual
ResValue(self, q, k, i) ==
    Sat(FDiv(q.sn, ONE - (IF i.isMomentumRegion THEN i.axialInd ELSE k.kappa))
        - FDiv(FMul(FDiv(self._Ux, self._Uy), q.cs), ONE + i.tangentialInd))

\* what one evaluation gives: raised tells that a polar was asked for an
\* angle outside its range and nothing was stored
ResReturn(self, q, k, i) ==
    [raised |-> FALSE, residuals |-> ResValue(self, q, k, i),
     axialInd |-> i.axialInd, tangentialInd |-> i.tangentialInd,
     kappa |-> k.kappa, kappaPrime |-> k.kappaPrime,
     isMomentumRegion |-> i.isMomentumRegion, isValidSolution |-> i.isValidSolution]
ResRaised(self) ==
    [raised |-> TRUE, residuals |-> 0,
     axialInd |-> self._axial_induction, tangentialInd |-> self._tangential_induction,
     kappa |-> 0, kappaPrime |-> 0, isMomentumRegion |-> FALSE, isValidSolution |-> FALSE]

ResFromKappas(self, inflowAngle, q, c, k) ==
    Only({ResReturn(self, q, k, i) : i \in {ResInductions(self, inflowAngle, c, k)}})
ResFromCoeffs(self, inflowAngle, q, c) ==
    Only({ResFromKappas(self, inflowAngle, q, c, k) : k \in {ResKappas(q, c)}})
ResFromAero(self, inflowAngle, q) ==
    Only({ResFromCoeffs(self, inflowAngle, q, c) : c \in {ResCoeffs(self, inflowAngle, q)}})

\* NingUncoupled.residuals : the value returned and the inductions stored
Residuals(self, inflowAngle) ==
    IF InRange(self._funLift.alpha, inflowAngle - self._angle)
    THEN Only({ResFromAero(self, inflowAngle, q) : q \in {ResAero(self, inflowAngle)}})
    ELSE ResRaised(self)

(***************************************************************************)
(* scipy.optimize.brentq as NingUncoupled.solve calls it: Brent's method   *)
(* on [xa, xb] with the default tolerances                                 *)
(***************************************************************************)
\* xtol of brentq in units of the angle grid (rtol is below the grid), and
\* maxiter
BrentqXtol == 2
BrentqMaxIter == 100
BrentqDelta == BrentqXtol \div 2

\* as BrentqEnter, but the search starts from the mirrored end -xb
BrentqEnterMirrored(xa, xb) ==
    [xa |-> xa, xb |-> xb, fa |-> 0, fb |-> 0, xpre |-> xa, xcur |-> -xb, xblk |-> 0,
     fpre |-> 0, fcur |-> 0, fblk |-> 0, spre |-> 0, scur |-> 0, i |-> 0]

\* the locals of brentq on entry
BrentqEnter(xa, xb) ==
    [xa |-> xa, xb |-> xb, fa |-> 0, fb |-> 0, xpre |-> xa, xcur |-> xb, xblk |-> 0,
     fpre |-> 0, fcur |-> 0, fblk |-> 0, spre |-> 0, scur |-> 0, i |-> 0]
NoBrentq == BrentqEnter(0, 0)

\* as BrentqSignError, but every pair of endpoint values is accepted
BrentqSignErrorNever(fpre, fcur) == FALSE

\* f(a) and f(b) must have different signs
BrentqSignError(fpre, fcur) == Sign(fpre) = Sign(fcur)

\* the root is bracketed by xpre and xcur: xblk takes over xpre
BrentqBracket(b) ==
    IF b.fpre # 0 /\ b.fcur # 0 /\ Sign(b.fpre) # Sign(b.fcur)
    THEN [b EXCEPT !.xblk = b.xpre, !.fblk = b.fpre,
                   !.spre = b.xcur - b.xpre, !.scur = b.xcur - b.xpre]
    ELSE b

\* xcur is the end of the bracket with the smaller residual
BrentqSwap(b) ==
    IF Abs(b.fblk) < Abs(b.fcur)
    THEN [b EXCEPT !.xpre = b.xcur, !.xcur = b.xblk, !.xblk = b.xcur,
                   !.fpre = b.fcur, !.fcur = b.fblk, !.fblk = b.fcur]
    ELSE b

\* sbis = (xblk - xcur)/2 and the test fcur == 0 || fabs(sbis) < delta
BrentqSbis(b) == Quot(b.xblk - b.xcur, 2)
BrentqDone(b) == b.fcur = 0 \/ Abs(b.xblk - b.xcur) < 2 * BrentqDelta

\* the interpolated (xpre == xblk) or extrapolated step; ok is FALSE where
\* the float step is not finite
BrentqExtrapolate(b, dpre, dblk) ==
    Only({IF den = 0 THEN [ok |-> FALSE, stry |-> 0]
          ELSE [ok |-> TRUE,
                stry |-> FDiv(FMul(-b.fcur, FMul(b.fblk, dblk) - FMul(b.fpre, dpre)), den)] :
            den \in {FMul(FMul(dblk, dpre), b.fblk - b.fpre)}})
BrentqTry(b) ==
    IF b.xpre = b.xblk
    THEN [ok |-> TRUE, stry |-> Quot(-b.fcur * (b.xcur - b.xpre), b.fcur - b.fpre)]
    ELSE BrentqExtrapolate(b, FDiv(b.fpre - b.fcur, b.xpre - b.xcur),
                              FDiv(b.fblk - b.fcur, b.xblk - b.xcur))

\* spre and scur of the next step
BrentqAccept(b, sbis, t) ==
    IF t.ok /\ 2 * Abs(t.stry) < Min(Abs(b.spre), 3 * Abs(sbis) - BrentqDelta)
    THEN [b EXCEPT !.spre = b.scur, !.scur = t.stry]
    ELSE [b EXCEPT !.spre = sbis, !.scur = sbis]
BrentqChoose(b, sbis) ==
    IF Abs(b.spre) > BrentqDelta /\ Abs(b.fcur) < Abs(b.fpre)
    THEN Only({BrentqAccept(b, sbis, t) : t \in {BrentqTry(b)}})
    ELSE [b EXCEPT !.spre = sbis, !.scur = sbis]

\* xpre = xcur; fpre = fcur; xcur += scur or +-delta
BrentqMove(b, sbis) ==
    [b EXCEPT !.xpre = b.xcur, !.fpre = b.fcur,
              !.xcur = b.xcur + (IF Abs(b.scur) > BrentqDelta THEN b.scur
                                 ELSE IF sbis > 0 THEN BrentqDelta ELSE -BrentqDelta)]
BrentqAdvance(b) ==
    Only({BrentqMove(c, BrentqSbis(b)) : c \in {BrentqChoose(b, BrentqSbis(b))}})

(***************************************************************************)
(* ning.py : NingUncoupled.solve, the steps after the root search          *)
(***************************************************************************)
\* epsilon given to the constructor of the solver
Epsilon == 100

\* as SkewAngleCall, but every instance answers as Burton
SkewAngleCallBurton(obj, axialInduction, yawAngle) ==
    FMul(FMul(600, axialInduction) + ONE, yawAngle)

\* as SkewAngleCall, but the Dummy answers with the angle it is given
SkewAngleCallYaw(obj, axialInduction, yawAngle) ==
    IF obj.qualname = <<"SkewAngle", "Burton">>
    THEN FMul(FMul(600, axialInduction) + ONE, yawAngle)
    ELSE yawAngle

\* SkewAngle.Dummy.__call__, SkewAngle.Burton.__call__ and the dispatch on
\* the installed instance
SkewAngleCall(obj, axialInduction, yawAngle) ==
    IF obj.qualname = <<"SkewAngle", "Burton">>
    THEN FMul(FMul(600, axialInduction) + ONE, yawAngle)
    ELSE axialInduction

\* the class YawModel.PittAndPeters, as a caller puts it into a selection
PittAndPeters == Obj(<<"YawModel", "PittAndPeters">>, 0, TRUE)

\* the call of a YawModel instance with n positional arguments is accepted:
\* Dummy.__call__ takes axialInduction and *args, PittAndPeters.__call__
\* takes axialInduction, wakeSkewAngle, azimuthAngle, radius, tipRadius
YawModelAccepts(obj, n) ==
    IF obj.qualname = <<"YawModel", "PittAndPeters">> THEN n = 5 ELSE n >= 1

\* YawModel.Dummy.__call__
YawModelCall(obj, axialInduction, wakeSkewAngle, azimuthAngle, radius, hubRadius, tipRadius) ==
    axialInduction

\* how a solve call ends
NoOut == [status |-> "none", error |-> "", normalForce |-> 0, tangentialForce |-> 0,
          axialInduction |-> 0, tangentialInduction |-> 0]
Raised(error) == [NoOut EXCEPT !.status = "raised", !.error = error]
Returned(normalForce, tangentialForce, a, aprime) ==
    [status |-> "returned", error |-> "", normalForce |-> normalForce,
     tangentialForce |-> tangentialForce, axialInduction |-> a, tangentialInduction |-> aprime]

\* uxRelative and uthetaRelative
PostVelocity(self, Ux, Uy) ==
    [uxRelative     |-> FMul(Ux, ONE - self._axial_induction),
     uthetaRelative |-> FMul(Uy, ONE + self._tangential_induction)]

\* liftCoeff, dragCoeff and the sine and cosine of the angle of attack
PostAero(airfoil, attackAngle) ==
    [liftCoeff |-> AirfoilCl(airfoil, attackAngle), dragCoeff |-> AirfoilCd(airfoil, attackAngle),
     sn |-> Sin(attackAngle), cs |-> Cos(attackAngle)]

\* 0.5*self.rho*uRelative**2.*chord*coeff
PostForce(rho, uRelative, chord, coeff) ==
    FMul(FMul(FMul(FMul(500, rho), FMul(uRelative, uRelative)), chord), coeff)
PostForces(self, chord, uRelative, q) ==
    Returned(PostForce(self.rho, uRelative, chord,
                       FMul(q.liftCoeff, q.cs) + FMul(q.dragCoeff, q.sn)),
             PostForce(self.rho, uRelative, chord,
                       FMul(q.dragCoeff, q.cs) - FMul(q.liftCoeff, q.sn)),
             self._axial_induction, self._tangential_induction)

\* lines 243-259 : the forces from the corrected inductions
PostFromAngle(self, section, u, attackAngle) ==
    IF InRange(section.airfoil.alpha, attackAngle)
    THEN Only({PostForces(self, section.chord, uRelative, q) :
                 uRelative \in {Sqrt(Sat(FMul(u.uxRelative, u.uxRelative)
                                         + FMul(u.uthetaRelative, u.uthetaRelative)))},
                 q \in {PostAero(section.airfoil, attackAngle)}})
    ELSE Raised("ValueError")
PostFromVelocity(self, section, pitch, u) ==
    Only({PostFromAngle(self, section, u, inflowAngle - (section.twist + pitch)) :
            inflowAngle \in {Atan2(u.uxRelative, u.uthetaRelative)}})
SolveFinish(self, section, pitch, velocity) ==
    Only({PostFromVelocity(self, section, pitch, u) :
            u \in {PostVelocity(self, velocity[1], velocity[2])}})

\* no solve call made yet
NoArgs == [section |-> Section(0, 0, 0, Foil), azimuth |-> 0, pitch |-> 0,
           velocity |-> <<0, 0, 0>>, angles |-> <<0, 0>>, tStep |-> 0]
NoRes == [raised |-> FALSE, residuals |-> 0, axialInd |-> 0, tangentialInd |-> 0,
          kappa |-> 0, kappaPrime |-> 0, isMomentumRegion |-> FALSE,
          isValidSolution |-> FALSE]
NoEval == [x |-> 0, then |-> "", n |-> 0, last |-> 0, ret |-> NoRes]
NoLocals == [residualEpsilon |-> 0, residualPiOvTwo |-> 0, residualMinusEpsilon |-> 0,
             residualMinPiOvFour |-> 0, interval |-> 0, inflowAngle |-> 0,
             hooks |-> <<>>]
NoSolve ==
    /\ ning = NingUncoupledInit(Rotor, Epsilon)
    /\ args = NoArgs
    /\ pc = "idle"
    /\ ev = NoEval
    /\ loc = NoLocals
    /\ bq = NoBrentq
    /\ out = NoOut
    /\ solves = 0

\* no call of dynamic made yet
NoDynamicArgs == [azimuth |-> <<>>, pitch |-> <<>>, wind |-> <<>>, omega |-> <<>>,
                  elements |-> <<>>, tStep |-> 0]
NoInputs == [azimuth |-> <<>>, pitch |-> <<>>, wind |-> <<>>, omega |-> <<>>]
NoSweepLocals == [sections_to_consider |-> <<>>, number_sections |-> 0,
                  inputs |-> NoInputs, number_steps |-> 0, i |-> 0, ii |-> 0,
                  left |-> 0]
NoArray == [x \in {} |-> x]
NoSweep ==
    /\ dynamicArgs = NoDynamicArgs
    /\ sweep = NoSweepLocals
    /\ forces = NoArray
    /\ factors = NoArray
    /\ stored = {}
    /\ trace = <<>>
    /\ dpc = "idle"

\* NingCoupled.__init__, lines 307-318 : the fields of the coupled solver
NingCoupledInit(rotor) ==
    [rotor |-> rotor, rho |-> DefaultRho,
     _uInfty |-> 0, _UxPrime |-> 0, _UyPrime |-> 0, _skew |-> 0, _yaw |-> 0,
     _azimuth |-> 0, _axial_induction |-> 0, _tangential_induction |-> 0,
     _angle |-> 0, _funLift |-> Foil, _funDrag |-> Foil, _chord |-> 0, _radius |-> 0]

\* no call of NingCoupled.solve made yet
NoCoupledArgs == [section |-> Section(0, 0, 0, Foil), azimuth |-> 0, pitch |-> 0,
                  velocity |-> <<0, 0>>, angles |-> <<0, 0>>, uInfty |-> 0,
                  UxPrime |-> 0, UyPrime |-> 0, skew |-> 0, tStep |-> 0]
NoWake == [angle |-> 0, sin |-> 0, cos |-> 0, tanHalf |-> 0]
NoResult == [ran |-> FALSE, x |-> <<0, 0>>, success |-> FALSE, hooks |-> <<>>,
             wake |-> NoWake]
NoCoupled ==
    /\ co = NingCoupledInit(Rotor)
    /\ cargs = NoCoupledArgs
    /\ res = NoResult
    /\ cout = NoOut
    /\ cpc = "idle"

\* no call of steady or cycle made yet
NoSteadyArgs == [azimuth |-> 0, pitch |-> 0, wind |-> 0, omega |-> 0, angles |-> <<0, 0>>,
                 precone |-> 0, elements |-> <<>>, kwargs |-> <<>>]
NoSteadyLocals == [sections_to_consider |-> <<>>, number_sections |-> 0,
                   forces |-> <<>>, inductions |-> <<>>, pre_args |-> {},
                   pre_inputs |-> <<>>, kwargs |-> <<>>, i |-> 0]
NoCycleArgs == [pitch |-> 0, wind |-> 0, omega |-> 0, angles |-> <<0, 0>>, precone |-> 0,
                N |-> 0, dt |-> <<>>, delta_phi |-> <<>>, n_phi |-> <<>>, kwargs |-> <<>>]
NoCycleLocals == [delta_phi |-> 0, azimuths |-> <<>>, n_phi |-> 0, forces |-> <<>>,
                  inductions |-> <<>>, i |-> 0, error |-> "", line |-> 0]
NoDrivers ==
    /\ sargs = NoSteadyArgs
    /\ sloc = NoSteadyLocals
    /\ spc = "idle"
    /\ cyargs = NoCycleArgs
    /\ cyloc = NoCycleLocals
    /\ cypc = "idle"
    /\ log = <<>>

\* no call of update and no call of a Dummy correction made yet
NoUpdate == [kwargs |-> <<>>, applied |-> 0, status |-> "none", error |-> ""]
NoDummyCall == [class |-> "", arguments |-> <<>>, status |-> "none", ret |-> 0]
NoMisc ==
    /\ upd = NoUpdate
    /\ dm = NoDummyCall

(***************************************************************************)
(* bem.py : Corrections.__init__                                           *)
(***************************************************************************)
NoAttrs == [x \in {} |-> x]
SetAttr(dict, name, val) == (name :> val) @@ dict

\* corr = corr() if isinstance(corr,type) else corr
Instantiate(corr, id) == IF corr.isType THEN Obj(corr.qualname, id, FALSE) ELSE corr

\* a selection: None, a dict (keys -> items) or a list of items
SelNone == [form |-> "none"]
SelDict(map) == [form |-> "dict", map |-> map]
SelList(items) == [form |-> "list", items |-> items]

\* as ScanList, without the break: the last item of the family is installed
ScanListLast(items, i, effect_name, current, owner, k) ==
    IF \A j \in i..Len(items) : ~NameIn(effect_name, items[j].qualname) THEN current
    ELSE Only({Instantiate(items[last], FreshId(owner, k, last)) :
                 last \in {j \in i..Len(items) :
                             /\ NameIn(effect_name, items[j].qualname)
                             /\ \A l \in (j + 1)..Len(items) :
                                   ~NameIn(effect_name, items[l].qualname)}})

\* the loop "for corr in corrections" of the list branch for the k-th class,
\* from the i-th item on: the value the attribute ends with
RECURSIVE ScanList(_, _, _, _, _, _)
ScanList(items, i, effect_name, current, owner, k) ==
    IF i > Len(items) THEN current
    ELSE IF NameIn(effect_name, items[i].qualname)
         THEN Instantiate(items[i], FreshId(owner, k, i))
         ELSE ScanList(items, i + 1, effect_name, current, owner, k)

\* as CorrectionsStep, but a category nothing was selected for is left unset
CorrectionsStepNoDefault(sel, k, dict, owner) ==
    IF sel.form = "dict"
    THEN IF LowerFirst(SecondaryClasses[k]) \in DOMAIN sel.map
         THEN SetAttr(dict, LowerFirst(SecondaryClasses[k]),
                      Instantiate(sel.map[LowerFirst(SecondaryClasses[k])],
                                  FreshId(owner, k, 0)))
         ELSE dict
    ELSE SetAttr(dict, LowerFirst(SecondaryClasses[k]),
                 ScanList(sel.items, 1, SecondaryClasses[k],
                          DummyOf(SecondaryClasses[k], FreshId(owner, k, 0)), owner, k))

\* as CorrectionsStep, but the dict branch installs the value of a key only if
\* it belongs to the family of the category, and the Dummy otherwise
CorrectionsStepValidated(sel, k, dict, owner) ==
    IF sel.form = "dict"
    THEN IF /\ LowerFirst(SecondaryClasses[k]) \in DOMAIN sel.map
            /\ NameIn(SecondaryClasses[k], sel.map[LowerFirst(SecondaryClasses[k])].qualname)
         THEN SetAttr(dict, LowerFirst(SecondaryClasses[k]),
                      Instantiate(sel.map[LowerFirst(SecondaryClasses[k])],
                                  FreshId(owner, k, 0)))
         ELSE SetAttr(dict, LowerFirst(SecondaryClasses[k]),
                      DummyOf(SecondaryClasses[k], FreshId(owner, k, 0)))
    ELSE SetAttr(dict, LowerFirst(SecondaryClasses[k]),
                 ScanList(sel.items, 1, SecondaryClasses[k],
                          DummyOf(SecondaryClasses[k], FreshId(owner, k, 0)), owner, k))

\* body of the loop over inspect.getmembers(secondary) for the k-th class
CorrectionsStep(sel, k, dict, owner) ==
    IF sel.form = "dict"
    THEN IF LowerFirst(SecondaryClasses[k]) \in DOMAIN sel.map
         THEN SetAttr(dict, LowerFirst(SecondaryClasses[k]),
                      Instantiate(sel.map[LowerFirst(SecondaryClasses[k])],
                                  FreshId(owner, k, 0)))
         ELSE SetAttr(dict, LowerFirst(SecondaryClasses[k]),
                      DummyOf(SecondaryClasses[k], FreshId(owner, k, 0)))
    ELSE SetAttr(dict, LowerFirst(SecondaryClasses[k]),
                 ScanList(sel.items, 1, SecondaryClasses[k],
                          DummyOf(SecondaryClasses[k], FreshId(owner, k, 0)), owner, k))

\* the loop over the classes of secondary, from the k-th class on
RECURSIVE CorrectionsLoop(_, _, _, _)
CorrectionsLoop(sel, k, dict, owner) ==
    IF k > Len(SecondaryClasses) THEN dict
    ELSE Only({CorrectionsLoop(sel, k + 1, d, owner) :
                 d \in {CorrectionsStep(sel, k, dict, owner)}})

\* Corrections.__init__ : the __dict__ of the new bundle
CorrectionsInit(sel, owner) == CorrectionsLoop(sel, 1, NoAttrs, owner)

\* Corrections.__iter__ : the attribute values in insertion order
CorrectionsIter(dict) ==
    [k \in 1..Len(SecondaryClasses) |-> dict[LowerFirst(SecondaryClasses[k])]]

(***************************************************************************)
(* bem.py : BaseBEM.__init__ ; ning.py : the solver constructors           *)
(***************************************************************************)
\* if corrections is None: corrections = {} ; Corrections(corrections)
BaseBEMInit(sel, owner) ==
    CorrectionsInit(IF sel.form = "none" THEN SelDict(NoAttrs) ELSE sel, owner)

\* the corrections argument NingCoupled.__init__ hands to NingUncoupled
InnerSelection(how, dict) ==
    IF how \in {"positional", "keyword"}
    THEN SelList(CorrectionsIter(dict))
    ELSE SelNone

\* selections a caller can give
DictKeys == CategoryNames \cup {"tipLoss"}
Maps == UNION {[ks -> {Prandtl, PrandtlInst, Burton, KnudsenA, PlainFloat}] :
                 ks \in {s \in SUBSET DictKeys : Cardinality(s) <= 2}}
Lists == UNION {[1..n -> UserItems] : n \in 0..MaxItems}
Selections == {SelNone} \cup {SelDict(m) : m \in Maps} \cup {SelList(l) : l \in Lists}

ConstructBaseBEM(sel) ==
    /\ solverKind = "none"
    /\ corrections' = BaseBEMInit(sel, 1)
    /\ solverKind' = "BaseBEM"
    /\ selection' = sel
    /\ passing' = "keyword"
    /\ UNCHANGED <<uncoupled, knVars, ctVars, unVars, swVars, coVars, drVars, miscVars>>

ConstructNingUncoupled(sel) ==
    /\ solverKind = "none"
    /\ corrections' = BaseBEMInit(sel, 1)
    /\ solverKind' = "NingUncoupled"
    /\ selection' = sel
    /\ passing' = "positional"
    /\ UNCHANGED <<uncoupled, knVars, ctVars, unVars, swVars, coVars, drVars, miscVars>>

ConstructNingCoupled(sel, how) ==
    /\ solverKind = "none"
    /\ how = "omitted" => sel = SelNone
    /\ \E dict \in {BaseBEMInit(sel, 1)} :
          /\ corrections' = dict
          /\ uncoupled' = BaseBEMInit(InnerSelection(how, dict), 2)
    /\ solverKind' = "NingCoupled"
    /\ selection' = sel
    /\ passing' = how
    /\ UNCHANGED <<knVars, ctVars, unVars, swVars, coVars, drVars, miscVars>>

\* no solver constructed yet
NoSolver ==
    /\ solverKind = "none"
    /\ selection = SelNone
    /\ passing = "omitted"
    /\ corrections = NoAttrs
    /\ uncoupled = NoAttrs

\* no operation applied to a filter yet
NoOp == [op |-> "none", a |-> 0, Ux |-> 0, radius |-> 0, tStep |-> 0,
         before |-> 0, raised |-> FALSE, ret |-> 0]
NoFilter ==
    /\ dyn = DummyInflow
    /\ kn = NoOp
    /\ calls = 0

\* CtMomentum not called yet
NoCt == [op |-> "none", variant |-> "Dummy", a |-> 0, F |-> 0, chi |-> 0,
         value |-> 0, printed |-> 0, branch |-> "none"]
NoThrust ==
    /\ ct = NoCt
    /\ stdout = 0

InitCorr ==
    /\ NoSolver
    /\ NoFilter
    /\ NoThrust
    /\ NoSolve
    /\ NoSweep
    /\ NoCoupled
    /\ NoDrivers
    /\ NoMisc

NextCorr ==
    \/ \E sel \in Selections : ConstructBaseBEM(sel)
    \/ \E sel \in Selections : ConstructNingUncoupled(sel)
    \/ \E sel \in Selections, how \in {"positional", "keyword", "omitted"} :
          ConstructNingCoupled(sel, how)

SpecCorr == InitCorr /\ [][NextCorr]_vars

(***************************************************************************)
(* SpecKnudsen : one Knudsen filter, called and restarted in any order     *)
(***************************************************************************)
\* arguments of the constructor and of the calls
AlphaInits == {DefaultAlphaDynamic, 0, 500}
TauScales == {DefaultTauScale, 1000}
FilterInductions == {0, 333, 900}
FilterUx == {500, 8000}
FilterRadius == {2000}
FilterSteps == {0, 100, 1000}

InitKnudsen ==
    /\ NoSolver
    /\ NoThrust
    /\ \E alpha \in AlphaInits, tau \in TauScales : dyn = KnudsenInit(alpha, tau)
    /\ kn = NoOp
    /\ calls = 0
    /\ NoSolve
    /\ NoSweep
    /\ NoCoupled
    /\ NoDrivers
    /\ NoMisc

FilterCall(a, Ux, radius, tStep) ==
    /\ calls < MaxCalls
    /\ \E r \in {KnudsenCall(dyn, a, Ux, radius, tStep)} :
         /\ dyn' = r.self
         /\ kn' = [op |-> "call", a |-> a, Ux |-> Ux, radius |-> radius,
                   tStep |-> tStep, before |-> dyn.alphaDynamic,
                   raised |-> r.raised, ret |-> r.ret]
    /\ calls' = calls + 1
    /\ UNCHANGED <<corrVars, ctVars, unVars, swVars, coVars, drVars, miscVars>>

FilterRestart ==
    /\ calls < MaxCalls
    /\ dyn' = KnudsenRestart(dyn)
    /\ kn' = [NoOp EXCEPT !.op = "restart", !.before = dyn.alphaDynamic]
    /\ calls' = calls + 1
    /\ UNCHANGED <<corrVars, ctVars, unVars, swVars, coVars, drVars, miscVars>>

NextKnudsen ==
    \/ \E a \in FilterInductions, Ux \in FilterUx, radius \in FilterRadius,
          tStep \in FilterSteps : FilterCall(a, Ux, radius, tStep)
    \/ FilterRestart

SpecKnudsen == InitKnudsen /\ [][NextKnudsen]_vars

\* C7: a call with a zero timestep fails and leaves the stored value as it was;
\* a call with a nonzero timestep stores stored + tStep*kappa*(a - stored) and
\* returns the new stored value.
C7_KnudsenCall ==
    kn.op = "call" =>
        IF kn.tStep = 0
        THEN kn.raised /\ dyn.alphaDynamic = kn.before
        ELSE /\ ~kn.raised
             /\ dyn.alphaDynamic =
                   kn.before + Mul(Mul(kn.tStep, Div(ONE, Div(Mul(dyn.tauScale, kn.radius),
                                                              Max(ONE, kn.Ux)))),
                                   kn.a - kn.before)
             /\ kn.ret = dyn.alphaDynamic

\* C7 witness: a failed call after a successful one that moved the value
C7_Witness ==
    /\ kn.op = "call" /\ kn.tStep = 0 /\ kn.raised
    /\ dyn.alphaDynamic # dyn._alpha0

\* C8: after restart the filtered value is the initial value given to the
\* constructor, whatever calls and restarts came before, and a second restart
\* changes nothing.
C8_RestartInitial ==
    /\ [](kn.op = "restart" => dyn.alphaDynamic = dyn._alpha0)
    /\ [][dyn'._alpha0 = dyn._alpha0]_vars
    /\ [][(kn.op = "restart" /\ kn'.op = "restart") => dyn' = dyn]_vars

\* C8 witness: a restart that undid two filter steps of a non-default filter
C8_Witness ==
    /\ kn.op = "restart"
    /\ calls >= 3
    /\ kn.before # dyn._alpha0
    /\ dyn._alpha0 = 500
    /\ dyn.alphaDynamic = 500


(***************************************************************************)
(* SpecCt : calls of CtMomentum on a solver with a Dummy or a Buhl         *)
(* TurbulentWakeState correction                                           *)
(***************************************************************************)
CtInductions == {-200, 0, 399, 400, 401, 700, 1000, 1001, 1500}
CtLossFactors == {ONE, 800}
CtSkews == {0, 524}
CtVariants == {"Dummy", "Buhl"}

InitCt ==
    /\ NoSolver
    /\ NoFilter
    /\ NoThrust
    /\ NoSolve
    /\ NoSweep
    /\ NoCoupled
    /\ NoDrivers
    /\ NoMisc

CtMomentumCall(variant, a, aprime, F, chi) ==
    /\ ct.op = "none" \/ ct.variant = variant
    /\ stdout < MaxCtCalls
    /\ \E r \in {CtMomentum(variant, a, aprime, F, chi)} :
         /\ ct' = [op |-> "call", variant |-> variant, a |-> a, F |-> F, chi |-> chi,
                   value |-> r.value, printed |-> r.printed, branch |-> r.branch]
         /\ stdout' = stdout + r.printed
    /\ UNCHANGED <<corrVars, knVars, unVars, swVars, coVars, drVars, miscVars>>

NextCt ==
    \E variant \in CtVariants, a \in CtInductions, F \in CtLossFactors, chi \in CtSkews :
        CtMomentumCall(variant, a, 0, F, chi)

SpecCt == InitCt /\ [][NextCt]_vars

\* C10: CtMomentum returns CT(a,F,chi) for a <= 0.4, 4*a*F*(a-1)*cos(chi) for
\* a > 1.0 and the TurbulentWakeState correction's result in between, and it
\* prints the propeller-brake diagnostic exactly when a > 1.0.
C10_CtMomentumBranches ==
    /\ [](ct.op = "call" =>
            /\ (ct.a <= 400 =>
                  /\ ct.branch = "momentum"
                  /\ ct.value = Mul(Mul(Mul(4 * ONE, ct.a), ct.F),
                                    Sqrt(ONE - Mul(ct.a, Mul(2 * ONE, Cos(ct.chi)) - ct.a))))
            /\ (ct.a > 1000 =>
                  /\ ct.branch = "brake"
                  /\ ct.value = Mul(Mul(Mul(Mul(4 * ONE, ct.a), ct.F), ct.a - ONE), Cos(ct.chi)))
            /\ (ct.a > 400 /\ ct.a <= 1000 =>
                  /\ ct.branch = "empirical"
                  /\ ct.value = IF ct.variant = "Buhl" THEN Buhl(ct.a, ct.F, ct.chi)
                                ELSE CT(ct.a, ct.F, ct.chi))
            /\ (ct.printed = 1 <=> ct.a > 1000))
    /\ [][ct'.op = "call" => stdout' = stdout + (IF ct'.a > 1000 THEN 1 ELSE 0)]_vars

\* C10 witness: a call with a > 1.0 that printed the diagnostic, on a solver with a
\* Buhl correction whose result differs from the closed form
C10_Witness ==
    /\ ct.op = "call" /\ ct.a = 1500 /\ ct.variant = "Buhl"
    /\ ct.value > 0
    /\ stdout = 1
    /\ Buhl(700, ONE, 0) # CT(700, ONE, 0)


(***************************************************************************)
(* Claims on the Corrections bundle                                        *)
(***************************************************************************)
\* the category class an attribute name belongs to
ClassOf(name) ==
    SecondaryClasses[CHOOSE k \in 1..Len(SecondaryClasses) :
                        LowerFirst(SecondaryClasses[k]) = name]

\* the caller selected something for the category
Selected(name, sel) ==
    CASE sel.form = "none" -> FALSE
      [] sel.form = "dict" -> name \in DOMAIN sel.map
      [] sel.form = "list" ->
            \E i \in 1..Len(sel.items) : NameIn(ClassOf(name), sel.items[i].qualname)

IsOwnDummy(obj, name) == ~obj.isType /\ obj.qualname = <<ClassOf(name), "Dummy">>

\* C1: whatever selection a solver constructor was given, the bundle exposes
\* exactly the five categories and every category that was not selected holds
\* an instance of that category's own Dummy class.
C1_BundleComplete ==
    solverKind # "none" =>
        /\ DOMAIN corrections = CategoryNames
        /\ \A name \in CategoryNames :
              ~Selected(name, selection) => IsOwnDummy(corrections[name], name)

\* C1 witness: a partial list mixing an instance and a class, with the other
\* three categories left to their Dummy
C1_Witness ==
    /\ solverKind = "BaseBEM"
    /\ selection = SelList(<<PrandtlInst, Burton>>)
    /\ corrections["hubTipLoss"] = PrandtlInst
    /\ corrections["skewAngle"].qualname = <<"SkewAngle", "Burton">>
    /\ IsOwnDummy(corrections["dynamicInflow"], "dynamicInflow")

\* C2: the DynamicInflow instance of the internal uncoupled solver of a
\* NingCoupled solver is the very object the coupled solver holds, however the
\* coupled solver was constructed.
C2_SharedDynamicInflow ==
    solverKind = "NingCoupled" =>
        uncoupled["dynamicInflow"].id = corrections["dynamicInflow"].id

(***************************************************************************)
(* SpecUncoupled : solve calls on a NingUncoupled solver, one residual     *)
(* evaluation or one step of the root search at a time                     *)
(***************************************************************************)
\* arguments of the solve calls
Sections == {Section(5000, 0, 3000, Foil), Section(5000, 100, 1000, Foil)}
Velocities == {<<ux, uy, 0>> : ux \in {-5000, 5000, 25000}, uy \in {-20000, 5000, 60000}}
TimeSteps == {0, 100}
\* corrections given to the constructor
UncoupledSelections ==
    {SelNone, SelList(<<Burton, Knudsen>>), SelList(<<PittAndPeters>>)}
\* the fields of the DynamicInflow instance of a new solver
InstalledInflow(bundle) ==
    IF bundle["dynamicInflow"].qualname = <<"DynamicInflow", "Knudsen">>
    THEN KnudsenInit(DefaultAlphaDynamic, DefaultTauScale)
    ELSE DummyInflow

InitUncoupled ==
    /\ solverKind = "NingUncoupled"
    /\ selection \in UncoupledSelections
    /\ passing = "keyword"
    /\ corrections = BaseBEMInit(selection, 1)
    /\ uncoupled = NoAttrs
    /\ dyn = InstalledInflow(corrections)
    /\ kn = NoOp
    /\ calls = 0
    /\ NoThrust
    /\ NoSolve
    /\ NoSweep
    /\ NoCoupled
    /\ NoDrivers
    /\ NoMisc

\* self.residuals(x) is evaluated next, the call continues at label then
Ask(x, then) == [ev EXCEPT !.x = x, !.then = then]

\* as SolveEnter, but the chord and the radius of the solver are left as the
\* solve before set them
SolveEnterStale(section, azimuth, pitch, velocity, angles, tStep) ==
    /\ ning' = [ning EXCEPT !._axial_induction = 0, !._tangential_induction = 0,
                            !._Ux = velocity[1], !._Uy = velocity[2],
                            !._angle = section.twist + pitch,
                            !._funLift = section.airfoil, !._funDrag = section.airfoil,
                            !._chord = IF @ = 0 THEN section.chord ELSE @,
                            !._radius = IF @ = 0 THEN section.radius ELSE @]
    /\ args' = [section |-> section, azimuth |-> azimuth, pitch |-> pitch,
                velocity |-> velocity, angles |-> angles, tStep |-> tStep]
    /\ ev' = [NoEval EXCEPT !.x = ning.epsilon, !.then = "residualEpsilon"]
    /\ loc' = NoLocals
    /\ bq' = NoBrentq
    /\ out' = NoOut
    /\ pc' = "residuals"

\* solve, lines 188-212 : reset of the inductions, update(...) and the first
\* evaluation asked for
SolveEnter(section, azimuth, pitch, velocity, angles, tStep) ==
    /\ ning' = [ning EXCEPT !._axial_induction = 0, !._tangential_induction = 0,
                            !._Ux = velocity[1], !._Uy = velocity[2],
                            !._angle = section.twist + pitch,
                            !._funLift = section.airfoil, !._funDrag = section.airfoil,
                            !._chord = section.chord, !._radius = section.radius]
    /\ args' = [section |-> section, azimuth |-> azimuth, pitch |-> pitch,
                velocity |-> velocity, angles |-> angles, tStep |-> tStep]
    /\ ev' = [NoEval EXCEPT !.x = ning.epsilon, !.then = "residualEpsilon"]
    /\ loc' = NoLocals
    /\ bq' = NoBrentq
    /\ out' = NoOut
    /\ pc' = "residuals"

\* a call of solve on the solver
SolveCall(section, azimuth, pitch, velocity, angles, tStep) ==
    /\ pc = "idle"
    /\ solves < MaxSolves
    /\ SolveEnter(section, azimuth, pitch, velocity, angles, tStep)
    /\ solves' = solves + 1
    /\ UNCHANGED <<corrVars, knVars, ctVars, swVars, coVars, drVars, miscVars>>

\* one call of self.residuals, by solve or by brentq
ResidualsCall ==
    /\ pc = "residuals"
    /\ \E r \in {Residuals(ning, ev.x)} :
         /\ ning' = [ning EXCEPT !._axial_induction = r.axialInd,
                                 !._tangential_induction = r.tangentialInd]
         /\ ev' = [ev EXCEPT !.n = @ + 1, !.last = ev.x, !.ret = r]
         /\ pc' = IF r.raised THEN "idle" ELSE ev.then
         /\ out' = IF r.raised THEN Raised("ValueError") ELSE out
    /\ UNCHANGED <<args, loc, bq, solves, corrVars, knVars, ctVars, swVars, coVars, drVars, miscVars>>

\* residualEpsilon = self.residuals(self.epsilon)
GotEpsilon ==
    /\ pc = "residualEpsilon"
    /\ loc' = [loc EXCEPT !.residualEpsilon = ev.ret.residuals]
    /\ ev' = Ask(PI_HALF, "residualPiOvTwo")
    /\ pc' = "residuals"
    /\ UNCHANGED <<ning, args, bq, out, solves, corrVars, knVars, ctVars, swVars, coVars, drVars, miscVars>>

\* residualPiOvTwo = self.residuals(PI_HALF) and the first test; the product
\* of two residuals is negative when their signs are opposite
GotPiOvTwo ==
    /\ pc = "residualPiOvTwo"
    /\ IF Sign(loc.residualEpsilon) * Sign(ev.ret.residuals) < 0
       THEN /\ loc' = [loc EXCEPT !.residualPiOvTwo = ev.ret.residuals, !.interval = 1]
            /\ bq' = BrentqEnter(ning.epsilon, PI_HALF)
            /\ ev' = Ask(ning.epsilon, "brentqA")
       ELSE /\ loc' = [loc EXCEPT !.residualPiOvTwo = ev.ret.residuals]
            /\ bq' = bq
            /\ ev' = Ask(-ning.epsilon, "residualMinusEpsilon")
    /\ pc' = "residuals"
    /\ UNCHANGED <<ning, args, out, solves, corrVars, knVars, ctVars, swVars, coVars, drVars, miscVars>>

\* residualMinusEpsilon = self.residuals(-self.epsilon)
GotMinusEpsilon ==
    /\ pc = "residualMinusEpsilon"
    /\ loc' = [loc EXCEPT !.residualMinusEpsilon = ev.ret.residuals]
    /\ ev' = Ask(-PI_QUARTER, "residualMinPiOvFour")
    /\ pc' = "residuals"
    /\ UNCHANGED <<ning, args, bq, out, solves, corrVars, knVars, ctVars, swVars, coVars, drVars, miscVars>>

\* residualMinPiOvFour = self.residuals(-PI_QUARTER) and the second test; the
\* third interval is searched without a test
GotMinPiOvFour ==
    /\ pc = "residualMinPiOvFour"
    /\ IF Sign(loc.residualMinusEpsilon) * Sign(ev.ret.residuals) < 0
       THEN /\ loc' = [loc EXCEPT !.residualMinPiOvFour = ev.ret.residuals, !.interval = 2]
            /\ bq' = BrentqEnter(-PI_QUARTER, -ning.epsilon)
            /\ ev' = Ask(-PI_QUARTER, "brentqA")
       ELSE /\ loc' = [loc EXCEPT !.residualMinPiOvFour = ev.ret.residuals, !.interval = 3]
            /\ bq' = BrentqEnter(PI_HALF, PI - ning.epsilon)
            /\ ev' = Ask(PI_HALF, "brentqA")
    /\ pc' = "residuals"
    /\ UNCHANGED <<ning, args, out, solves, corrVars, knVars, ctVars, swVars, coVars, drVars, miscVars>>

\* brentq : fpre = f(xpre), then f(xcur) is evaluated
BrentqA ==
    /\ pc = "brentqA"
    /\ bq' = [bq EXCEPT !.fpre = ev.ret.residuals, !.fa = ev.ret.residuals]
    /\ ev' = Ask(bq.xcur, "brentqB")
    /\ pc' = "residuals"
    /\ UNCHANGED <<ning, args, loc, out, solves, corrVars, knVars, ctVars, swVars, coVars, drVars, miscVars>>

\* brentq : fcur = f(xcur), the roots at the ends of the interval and the
\* test of the signs; ValueError is not caught by solve
BrentqB ==
    /\ pc = "brentqB"
    /\ bq' = [bq EXCEPT !.fcur = ev.ret.residuals, !.fb = ev.ret.residuals]
    /\ IF bq.fpre = 0
       THEN /\ loc' = [loc EXCEPT !.inflowAngle = bq.xpre]
            /\ pc' = "post"
            /\ out' = out
       ELSE IF ev.ret.residuals = 0
       THEN /\ loc' = [loc EXCEPT !.inflowAngle = bq.xcur]
            /\ pc' = "post"
            /\ out' = out
       ELSE IF BrentqSignError(bq.fpre, ev.ret.residuals)
       THEN /\ loc' = loc
            /\ pc' = "idle"
            /\ out' = Raised("ValueError")
       ELSE /\ loc' = loc
            /\ pc' = "brentqLoop"
            /\ out' = out
    /\ UNCHANGED <<ning, args, ev, solves, corrVars, knVars, ctVars, swVars, coVars, drVars, miscVars>>

\* brentq : one pass of the loop up to the return of xcur or to the next
\* evaluation; RuntimeError after maxiter passes
BrentqLoop ==
    /\ pc = "brentqLoop"
    /\ IF bq.i >= BrentqMaxIter
       THEN /\ bq' = bq
            /\ loc' = loc
            /\ ev' = ev
            /\ pc' = "idle"
            /\ out' = Raised("RuntimeError")
       ELSE \E b \in {BrentqSwap(BrentqBracket(bq))} :
              IF BrentqDone(b)
              THEN /\ bq' = [b EXCEPT !.i = @ + 1]
                   /\ loc' = [loc EXCEPT !.inflowAngle = b.xcur]
                   /\ ev' = ev
                   /\ pc' = "post"
                   /\ out' = out
              ELSE \E c \in {BrentqAdvance(b)} :
                     /\ bq' = [c EXCEPT !.i = @ + 1]
                     /\ loc' = loc
                     /\ ev' = Ask(c.xcur, "brentqF")
                     /\ pc' = "residuals"
                     /\ out' = out
    /\ UNCHANGED <<ning, args, solves, corrVars, knVars, ctVars, swVars, coVars, drVars, miscVars>>

\* brentq : fcur = f(xcur) at the end of a pass
BrentqF ==
    /\ pc = "brentqF"
    /\ bq' = [bq EXCEPT !.fcur = ev.ret.residuals]
    /\ pc' = "brentqLoop"
    /\ UNCHANGED <<ning, args, ev, loc, out, solves, corrVars, knVars, ctVars, swVars, coVars, drVars, miscVars>>

\* a call of a correction made by solve: its arguments, and its result
Hook(name, arguments, raised, ret) ==
    [name |-> name, arguments |-> arguments, raised |-> raised, ret |-> ret]

\* solve, lines 233-259 : the corrections of the axial induction and the
\* forces; the angle brentq returned is not used. A call a correction does not
\* accept raises TypeError
SolvePostCorrected(w, y) ==
    \E d \in {DynamicInflowCall(dyn, y, args.velocity[1], args.section.radius,
                                args.tStep)} :
    \E self \in {[ning EXCEPT !._axial_induction = IF d.raised THEN y ELSE d.ret]} :
       /\ ning' = self
       /\ dyn' = d.self
       /\ out' = IF d.raised THEN Raised("ValueError")
                 ELSE SolveFinish(self, args.section, args.pitch, args.velocity)
       /\ loc' = [loc EXCEPT !.hooks =
                     <<Hook("skewAngle", <<ning._axial_induction, args.angles[1]>>,
                            FALSE, w),
                       Hook("yawModel", <<ning._axial_induction, w, args.azimuth,
                                          args.section.radius, ning.rotor.hubRadius,
                                          ning.rotor.tipRadius>>, FALSE, y),
                       Hook("dynamicInflow", <<y, args.velocity[1], args.section.radius,
                                               args.tStep>>, d.raised, d.ret)>>]
SolvePost ==
    /\ pc = "post"
    /\ \E w \in {SkewAngleCall(corrections["skewAngle"], ning._axial_induction,
                               args.angles[1])} :
         IF YawModelAccepts(corrections["yawModel"], 6)
         THEN SolvePostCorrected(w, YawModelCall(corrections["yawModel"],
                                                ning._axial_induction, w, args.azimuth,
                                                args.section.radius,
                                                ning.rotor.hubRadius,
                                                ning.rotor.tipRadius))
         ELSE /\ ning' = ning
              /\ dyn' = dyn
              /\ out' = Raised("TypeError")
              /\ loc' = [loc EXCEPT !.hooks =
                            <<Hook("skewAngle", <<ning._axial_induction, args.angles[1]>>,
                                   FALSE, w),
                              Hook("yawModel", <<ning._axial_induction, w, args.azimuth,
                                                 args.section.radius,
                                                 ning.rotor.hubRadius,
                                                 ning.rotor.tipRadius>>, TRUE, 0)>>]
    /\ pc' = "idle"
    /\ UNCHANGED <<args, ev, bq, solves, corrVars, kn, calls, ctVars, swVars, coVars, drVars, miscVars>>

NextUncoupled ==
    \/ \E section \in Sections, velocity \in Velocities, tStep \in TimeSteps :
          SolveCall(section, 0, 0, velocity, <<0, 0>>, tStep)
    \/ ResidualsCall
    \/ GotEpsilon
    \/ GotPiOvTwo
    \/ GotMinusEpsilon
    \/ GotMinPiOvFour
    \/ BrentqA
    \/ BrentqB
    \/ BrentqLoop
    \/ BrentqF
    \/ SolvePost

SpecUncoupled == InitUncoupled /\ [][NextUncoupled]_vars

\* the residual of the solve call in progress at the angle x
ResidualAt(x) == Residuals(ning, x).residuals
\* the residual is not zero and has one sign at both angles
SameSign(x, y) == Sign(ResidualAt(x)) * Sign(ResidualAt(y)) > 0
\* the signs of the residual at both angles are opposite
OppositeSigns(x, y) == Sign(ResidualAt(x)) * Sign(ResidualAt(y)) < 0
\* the search intervals of solve
SearchInterval(k) ==
    CASE k = 1 -> <<ning.epsilon, PI_HALF>>
      [] k = 2 -> <<-PI_QUARTER, -ning.epsilon>>
      [] OTHER -> <<PI_HALF, PI - ning.epsilon>>
\* no sign change of the residual on any of the three intervals; an end of
\* the third interval where the residual is zero is a root
NoSignChange ==
    /\ ~OppositeSigns(ning.epsilon, PI_HALF)
    /\ ~OppositeSigns(-PI_QUARTER, -ning.epsilon)
    /\ SameSign(PI_HALF, PI - ning.epsilon)
\* the solve call has ended
SolveEnded == pc = "idle" /\ out.status # "none"

\* C3: when the residual changes sign on none of the three search intervals
\* the solve call ends in an error and returns nothing; a call that returns
\* has taken its angle from a search interval at whose ends the residual has
\* opposite signs or is zero.
C3_NoRootRaises ==
    /\ (SolveEnded /\ NoSignChange) =>
          /\ out.status = "raised" /\ out.error = "ValueError"
          /\ out = Raised("ValueError")
    /\ out.status = "returned" =>
          /\ loc.interval \in 1..3
          /\ <<bq.xa, bq.xb>> = SearchInterval(loc.interval)
          /\ ~SameSign(bq.xa, bq.xb)
          /\ bq.xa <= loc.inflowAngle /\ loc.inflowAngle <= bq.xb

\* C3 witness: a call that ended in the error of brentq on the third
\* interval, after the six evaluations at the ends of the three intervals
C3_Witness ==
    /\ SolveEnded /\ out = Raised("ValueError")
    /\ loc.interval = 3 /\ ev.n = 6
    /\ NoSignChange
    /\ SameSign(bq.xa, bq.xb)

\* C4: the inductions solve carries out of the root search are those the
\* residual function computes at the angle the root finder returned.
C4_InductionsAtRoot ==
    pc = "post" =>
        /\ ning._axial_induction = Residuals(ning, loc.inflowAngle).axialInd
        /\ ning._tangential_induction = Residuals(ning, loc.inflowAngle).tangentialInd

(***************************************************************************)
(* tools.py : calculateVelocity ; bem.py : BaseBEM.dynamic                 *)
(***************************************************************************)
\* an argument of dynamic: a float, or a list of floats
Float(v) == [list |-> FALSE, vals |-> <<v>>]
List(s) == [list |-> TRUE, vals |-> s]

\* Ux and Uy of calculateVelocity for one azimuth
VelocityUx(wind, azi, yaw, tilt, precone) ==
    FMul(wind, FMul(FMul(FMul(Cos(yaw), Sin(tilt)), Cos(azi))
                    + FMul(Sin(yaw), Sin(azi)), Sin(precone))
               + FMul(FMul(Cos(yaw), Cos(tilt)), Cos(precone)))
VelocityUy(wind, omega, rad, azi, yaw, tilt, precone) ==
    FMul(wind, FMul(FMul(Cos(tilt), Sin(precone)), Sin(azi))
               - FMul(Sin(yaw), Cos(azi)))
    + FMul(FMul(omega, rad), Cos(precone))

\* calculateVelocity : azi is a float or a list; on a list numpy computes
\* elementwise and Ux, Uy are arrays of the length of the list
calculateVelocity(wind, omega, rad, azi, yaw, tilt, precone) ==
    [array |-> azi.list,
     Ux |-> [k \in 1..Len(azi.vals) |->
               VelocityUx(wind, azi.vals[k], yaw, tilt, precone)],
     Uy |-> [k \in 1..Len(azi.vals) |->
               VelocityUy(wind, omega, rad, azi.vals[k], yaw, tilt, precone)]]

\* the sections of the rotor, and elements: slice(None) or a list of indices
RotorSections == <<Section(5000, 0, 3000, Foil), Section(5000, 100, 1000, Foil)>>
Slice == [slice |-> TRUE, indices |-> <<>>]
Indices(s) == [slice |-> FALSE, indices |-> s]

\* as SectionsToConsider, but the listed sections in blade order
SectionsInBladeOrder(sections, elements) ==
    IF elements.slice THEN sections
    ELSE SelectSeq(sections, LAMBDA x : \E k \in 1..Len(elements.indices) :
                                          sections[elements.indices[k]] = x)

\* dynamic, lines 332-336 ; steady, lines 257-261
SectionsToConsider(sections, elements) ==
    IF elements.slice THEN sections
    ELSE [k \in 1..Len(elements.indices) |-> sections[elements.indices[k]]]

\* dynamic, lines 342-348 : what one input adds to number_steps; len(val) of a
\* float raises TypeError, which leaves number_steps alone
StepsOf(val) == IF val.list /\ Len(val.vals) > 1 THEN Len(val.vals) ELSE 1
NumberSteps(a) ==
    Max(Max(StepsOf(a.azimuth), StepsOf(a.pitch)), Max(StepsOf(a.wind), StepsOf(a.omega)))

\* dynamic, lines 348-350 : a float becomes [val], and a list of length 1 is
\* repeated number_steps times; any other list is left as it is
Repeat(vals, number_steps) ==
    IF Len(vals) = 1 THEN [k \in 1..number_steps |-> vals[1]] ELSE vals
Inputs(a, number_steps) ==
    [azimuth |-> Repeat(a.azimuth.vals, number_steps),
     pitch   |-> Repeat(a.pitch.vals, number_steps),
     wind    |-> Repeat(a.wind.vals, number_steps),
     omega   |-> Repeat(a.omega.vals, number_steps)]

\* zip(*inputs.values()) : as many tuples as the shortest list has items
Zip(inputs) ==
    [k \in 1..Min(Min(Len(inputs.azimuth), Len(inputs.pitch)),
                  Min(Len(inputs.wind), Len(inputs.omega))) |->
        <<inputs.azimuth[k], inputs.pitch[k], inputs.wind[k], inputs.omega[k]>>]

\* np.zeros((number_sections,number_steps,2))
Zeros(number_sections, number_steps) ==
    [idx \in (1..number_sections) \X (1..number_steps) |-> <<0, 0>>]

\* hasattr(corr,'restart') : Knudsen is the only class with a restart method
HasRestart(corr) == corr.qualname = <<"DynamicInflow", "Knudsen">>

\* the attributes of the bundle whose object has a restart method
RestartHooks(dict) == {name \in DOMAIN dict : HasRestart(dict[name])}

\* dynamic, lines 367-368 on the installed DynamicInflow instance
RestartAll(dict, self) ==
    IF "dynamicInflow" \in RestartHooks(dict) THEN KnudsenRestart(self) ELSE self

\* as SeriesDone, but also after each single step
SeriesDoneAfterEachStep(ii, series) == ii > Len(series) \/ ii > 1

\* the step loop of line 358 has gone through every tuple of the series
SeriesDone(ii, series) == ii > Len(series)

\* what dynamic has called: solve for step ii of section i, or the restart
\* methods of the attributes hooks after the series of section i, the filter
\* holding the value was before
SolveEvent(i, ii) == [op |-> "solve", i |-> i, ii |-> ii, hooks |-> {}, was |-> 0]
RestartEvent(i, hooks, was) ==
    [op |-> "restart", i |-> i, ii |-> 0, hooks |-> hooks, was |-> was]

(***************************************************************************)
(* SpecDynamic : one call of dynamic on a NingUncoupled solver             *)
(***************************************************************************)
\* longest list given to dynamic
MaxSteps == 3
\* names one call of update is given
MaxNames == 3

\* the k-th value of each input
AzimuthAt(k) == (k - 1) * PI_HALF
PitchAt(k) == IF k % 2 = 0 THEN 100 ELSE 0
WindAt(k) == IF k % 3 = 1 THEN 5000 ELSE IF k % 3 = 2 THEN -5000 ELSE 25000
OmegaAt(k) == IF k = 1 THEN -4000 ELSE 1000
ListOf(At(_), n) == List([k \in 1..n |-> At(k)])

Azimuths == {Float(0), ListOf(AzimuthAt, 1), ListOf(AzimuthAt, MaxSteps)}
Pitches == {Float(0)} \cup {ListOf(PitchAt, n) : n \in 0..MaxSteps}
Winds == {Float(5000)} \cup {ListOf(WindAt, n) : n \in 1..MaxSteps}
Omegas == {Float(1000), ListOf(OmegaAt, 2)}
Elements == {Slice, Indices(<<2>>)}

InitDynamic == InitUncoupled

\* as DynamicCall, but the corrections are restarted before the first series
DynamicCallRestarting(azimuth, pitch, wind, omega, elements, tStep) ==
    /\ dpc = "idle"
    /\ \E a \in {[azimuth |-> azimuth, pitch |-> pitch, wind |-> wind, omega |-> omega,
                  elements |-> elements, tStep |-> tStep]} :
       \E sections \in {SectionsToConsider(RotorSections, elements)},
          number_steps \in {NumberSteps(a)} :
         /\ dynamicArgs' = a
         /\ sweep' = [sections_to_consider |-> sections,
                      number_sections |-> Len(sections),
                      inputs |-> Inputs(a, number_steps),
                      number_steps |-> number_steps, i |-> 1, ii |-> 1,
                      left |-> dyn.alphaDynamic]
         /\ forces' = Zeros(Len(sections), number_steps)
         /\ factors' = Zeros(Len(sections), number_steps)
    /\ stored' = {}
    /\ trace' = <<>>
    /\ dpc' = "steps"
    /\ dyn' = RestartAll(corrections, dyn)
    /\ UNCHANGED <<corrVars, kn, calls, ctVars, unVars, coVars, drVars, miscVars>>

\* dynamic, lines 332-353 ; left is the filter value the call found
DynamicCall(azimuth, pitch, wind, omega, elements, tStep) ==
    /\ dpc = "idle"
    /\ \E a \in {[azimuth |-> azimuth, pitch |-> pitch, wind |-> wind, omega |-> omega,
                  elements |-> elements, tStep |-> tStep]} :
       \E sections \in {SectionsToConsider(RotorSections, elements)},
          number_steps \in {NumberSteps(a)} :
         /\ dynamicArgs' = a
         /\ sweep' = [sections_to_consider |-> sections,
                      number_sections |-> Len(sections),
                      inputs |-> Inputs(a, number_steps),
                      number_steps |-> number_steps, i |-> 1, ii |-> 1,
                      left |-> dyn.alphaDynamic]
         /\ forces' = Zeros(Len(sections), number_steps)
         /\ factors' = Zeros(Len(sections), number_steps)
    /\ stored' = {}
    /\ trace' = <<>>
    /\ dpc' = "steps"
    /\ UNCHANGED <<corrVars, knVars, ctVars, unVars, coVars, drVars, miscVars>>

\* solve on a velocity of arrays with more than one element: update stores
\* them, and the test of line 115 in the first residuals call raises ValueError
\* (the truth value of such an array is ambiguous)
SolveArray(section, azimuth, pitch, velocity, angles, tStep) ==
    /\ ning' = [ning EXCEPT !._axial_induction = 0, !._tangential_induction = 0,
                            !._Ux = velocity[1], !._Uy = velocity[2],
                            !._angle = section.twist + pitch,
                            !._funLift = section.airfoil, !._funDrag = section.airfoil,
                            !._chord = section.chord, !._radius = section.radius]
    /\ args' = [section |-> section, azimuth |-> azimuth, pitch |-> pitch,
                velocity |-> velocity, angles |-> angles, tStep |-> tStep]
    /\ ev' = [NoEval EXCEPT !.x = ning.epsilon, !.then = "residualEpsilon"]
    /\ loc' = NoLocals
    /\ bq' = NoBrentq
    /\ out' = Raised("ValueError")
    /\ pc' = "idle"

\* dynamic, lines 358-366 : the velocity of the step and the call of solve
DynamicStep ==
    /\ dpc = "steps"
    /\ sweep.i <= sweep.number_sections
    /\ ~SeriesDone(sweep.ii, Zip(sweep.inputs))
    /\ \E section \in {sweep.sections_to_consider[sweep.i]},
          z \in {Zip(sweep.inputs)[sweep.ii]} :
       \E velocity \in {calculateVelocity(z[3], z[4], section.radius,
                                          dynamicArgs.azimuth, 0, 0, 0)} :
          IF Len(velocity.Ux) > 1
          THEN SolveArray(section, z[1], z[2], <<velocity.Ux, velocity.Uy>>,
                          <<0, 0>>, dynamicArgs.tStep)
          ELSE SolveEnter(section, z[1], z[2], <<velocity.Ux[1], velocity.Uy[1]>>,
                          <<0, 0>>, dynamicArgs.tStep)
    /\ trace' = Append(trace, SolveEvent(sweep.i, sweep.ii))
    /\ dpc' = "solving"
    /\ UNCHANGED <<dynamicArgs, sweep, forces, factors, stored, solves,
                   corrVars, knVars, ctVars, coVars, drVars, miscVars>>

\* dynamic, line 363 : the four values solve returned are assigned; an
\* exception of solve ends dynamic
DynamicStore ==
    /\ dpc = "solving"
    /\ pc = "idle"
    /\ IF out.status = "raised"
       THEN /\ dpc' = "raised"
            /\ UNCHANGED <<sweep, forces, factors, stored, coVars, drVars, miscVars>>
       ELSE /\ forces' = [forces EXCEPT ![<<sweep.i, sweep.ii>>] =
                                          <<out.normalForce, out.tangentialForce>>]
            /\ factors' = [factors EXCEPT ![<<sweep.i, sweep.ii>>] =
                                          <<out.axialInduction, out.tangentialInduction>>]
            /\ stored' = stored \cup {<<sweep.i, sweep.ii>>}
            /\ sweep' = [sweep EXCEPT !.ii = @ + 1]
            /\ dpc' = "steps"
    /\ UNCHANGED <<dynamicArgs, trace, corrVars, knVars, ctVars, unVars, coVars, drVars, miscVars>>

\* dynamic, lines 367-368 : after the steps of a section, restart of every
\* correction that has the method, then the next section
DynamicRestart ==
    /\ dpc = "steps"
    /\ sweep.i <= sweep.number_sections
    /\ SeriesDone(sweep.ii, Zip(sweep.inputs))
    /\ dyn' = RestartAll(corrections, dyn)
    /\ trace' = Append(trace, RestartEvent(sweep.i, RestartHooks(corrections),
                                           dyn.alphaDynamic))
    /\ sweep' = [sweep EXCEPT !.i = @ + 1, !.ii = 1]
    /\ UNCHANGED <<dynamicArgs, forces, factors, stored, dpc, kn, calls,
                   corrVars, ctVars, unVars, coVars, drVars, miscVars>>

\* dynamic, line 370
DynamicReturn ==
    /\ dpc = "steps"
    /\ sweep.i > sweep.number_sections
    /\ dpc' = "returned"
    /\ UNCHANGED <<dynamicArgs, sweep, forces, factors, stored, trace,
                   corrVars, knVars, ctVars, unVars, coVars, drVars, miscVars>>

NextDynamic ==
    \/ \E azimuth \in Azimuths, pitch \in Pitches, wind \in Winds, omega \in Omegas,
          elements \in Elements, tStep \in TimeSteps :
          DynamicCall(azimuth, pitch, wind, omega, elements, tStep)
    \/ DynamicStep
    \/ ResidualsCall
    \/ GotEpsilon
    \/ GotPiOvTwo
    \/ GotMinusEpsilon
    \/ GotMinPiOvFour
    \/ BrentqA
    \/ BrentqB
    \/ BrentqLoop
    \/ BrentqF
    \/ SolvePost
    \/ DynamicStore
    \/ DynamicRestart
    \/ DynamicReturn

SpecDynamic == InitDynamic /\ [][NextDynamic]_vars

(***************************************************************************)
(* SpecSeries : solve calls on a NingUncoupled solver, then one call of    *)
(* dynamic on it                                                           *)
(***************************************************************************)
SeriesWinds == {ListOf(WindAt, n) : n \in 1..MaxSteps}
SeriesOmegas == {Float(1000), Float(-4000)}
EarlierVelocities == {<<5000, 5000, 0>>, <<25000, 60000, 0>>}

InitSeries == InitUncoupled

\* a call of solve on the solver before dynamic is called
EarlierSolve(section, velocity, tStep) ==
    /\ dpc = "idle"
    /\ SolveCall(section, 0, 0, velocity, <<0, 0>>, tStep)

\* the call of dynamic, no solve being in progress
SeriesCall(wind, omega, elements, tStep) ==
    /\ pc = "idle"
    /\ DynamicCall(Float(0), Float(0), wind, omega, elements, tStep)

NextSeries ==
    \/ \E velocity \in EarlierVelocities, tStep \in TimeSteps :
          EarlierSolve(RotorSections[1], velocity, tStep)
    \/ \E wind \in SeriesWinds, omega \in SeriesOmegas, elements \in Elements,
          tStep \in TimeSteps :
          SeriesCall(wind, omega, elements, tStep)
    \/ DynamicStep
    \/ ResidualsCall
    \/ GotEpsilon
    \/ GotPiOvTwo
    \/ GotMinusEpsilon
    \/ GotMinPiOvFour
    \/ BrentqA
    \/ BrentqB
    \/ BrentqLoop
    \/ BrentqF
    \/ SolvePost
    \/ DynamicStore
    \/ DynamicRestart
    \/ DynamicReturn

SpecSeries == InitSeries /\ [][NextSeries]_vars

(***************************************************************************)
(* Claims on dynamic                                                       *)
(***************************************************************************)
InputKeys == {"azimuth", "pitch", "wind", "omega"}

\* no input of the call is an empty list
NoEmptyInput == \A key \in InputKeys : dynamicArgs[key].vals # <<>>

\* the indices of the arrays dynamic returns
AllEntries == (1..sweep.number_sections) \X (1..sweep.number_steps)

\* C5 : when dynamic returns, every input (a float, a list of one item or a
\* list shorter than the longest one) has been repeated to number_steps items,
\* solve has been called for every step of every selected section and every
\* entry of the returned arrays has been assigned
C5_EveryStepSolved ==
    (dpc = "returned" /\ NoEmptyInput) =>
        /\ \A key \in InputKeys : Len(sweep.inputs[key]) = sweep.number_steps
        /\ stored = AllEntries
        /\ \A idx \in AllEntries :
              \E k \in 1..Len(trace) : trace[k] = SolveEvent(idx[1], idx[2])

\* the number of steps the loop of a section goes through
SeriesLength == Len(Zip(sweep.inputs))

\* the k-th call is a restart made when all steps of its section were solved:
\* the calls before it, back to the previous restart, are the solve calls of
\* the steps 1..n of that section in order
AfterWholeSeries(k, n) ==
    /\ k = trace[k].i * (n + 1)
    /\ \A j \in 1..n : trace[k - n - 1 + j] = SolveEvent(trace[k].i, j)

\* C6 : dynamic calls restart only when all steps of the series of a section
\* have been solved and before the first step of the next section, on every
\* correction of the bundle that has the method, which puts the filter back to
\* its initial value; no restart is made between two steps of one series
C6_RestartBetweenSeries ==
    /\ \A k \in 1..Len(trace) :
          trace[k].op = "restart" =>
             /\ AfterWholeSeries(k, SeriesLength)
             /\ trace[k].hooks = RestartHooks(corrections)
             /\ k < Len(trace) => trace[k + 1].i = trace[k].i + 1
    /\ \A k \in 1..(Len(trace) - 1) :
          (trace[k].op = "solve" /\ trace[k + 1].op = "solve") =>
             /\ trace[k + 1].i = trace[k].i
             /\ trace[k + 1].ii = trace[k].ii + 1
    /\ (trace # <<>> /\ trace[Len(trace)].op = "restart" /\ HasRestart(corrections["dynamicInflow"])) =>
          dyn.alphaDynamic = dyn._alpha0
    /\ dpc = "returned" =>
          \A i \in 1..sweep.number_sections :
             \E k \in 1..Len(trace) : trace[k].op = "restart" /\ trace[k].i = i

\* a call on two sections with at least two steps each has returned; after
\* each series the Knudsen filter, moved by the steps, was restarted
C6_Witness ==
    /\ dpc = "returned"
    /\ sweep.number_sections = 2
    /\ SeriesLength >= 2
    /\ Len(trace) = 2 * (SeriesLength + 1)
    /\ \A k \in {SeriesLength + 1, Len(trace)} :
          /\ trace[k].op = "restart"
          /\ trace[k].hooks = {"dynamicInflow"}
          /\ trace[k].was # dyn._alpha0
    /\ dyn.alphaDynamic = dyn._alpha0

(***************************************************************************)
(* ning.py : NingCoupled.solve                                             *)
(***************************************************************************)
\* np.tan
Tan(x) == FDiv(Sin(x), Cos(x))

\* uxHub and uyHub, lines 469-472
UxHub(UxPrime, UyPrime, skew, azimuth, a, aprime, w) ==
    FMul(UxPrime, Cos(skew) - a)
    + FMul(FMul(FMul(FMul(UyPrime, aprime), Sin(w)), Cos(azimuth)),
           ONE + FMul(Sin(w), Sin(azimuth)))
UyHub(UxPrime, UyPrime, skew, azimuth, a, aprime, w) ==
    FMul(UyPrime, ONE + FMul(FMul(aprime, Cos(w)), ONE + FMul(Sin(w), Sin(azimuth))))
    + FMul(FMul(UxPrime, Cos(azimuth)), FMul(a, Tan(FDiv(w, 2 * ONE))) - Sin(skew))

\* minimize(self.residuals, inductionsInit, method='Powell', bounds=...) : scipy
\* returns an OptimizeResult whose x lies inside the bounds and whose success
\* tells whether the search converged; it does not raise when it did not
MinimizeBounds(axInd, tanInd) ==
    [lower |-> <<axInd - 200, tanInd - 200>>, upper |-> <<axInd + 200, tanInd + 200>>]
MinimizeResults(x0, b) ==
    {[ran |-> TRUE, x |-> <<a, t>>, success |-> s, hooks |-> <<>>, wake |-> NoWake] :
        a \in {b.lower[1], x0[1], b.upper[1]},
        t \in {b.lower[2], x0[2], b.upper[2]},
        s \in BOOLEAN}

\* lines 474-488 : the forces
CoupledForces(self, chord, uRelative, q, a, aprime) ==
    Returned(PostForce(self.rho, uRelative, chord,
                       FMul(q.liftCoeff, q.cs) + FMul(q.dragCoeff, q.sn)),
             PostForce(self.rho, uRelative, chord,
                       FMul(q.dragCoeff, q.cs) - FMul(q.liftCoeff, q.sn)),
             a, aprime)
CoupledFromAngle(self, section, uxHub, uyHub, attackAngle, a, aprime) ==
    IF InRange(section.airfoil.alpha, attackAngle)
    THEN Only({CoupledForces(self, section.chord, uRelative, q, a, aprime) :
                 uRelative \in {Sqrt(Sat(FMul(uxHub, uxHub) + FMul(uyHub, uyHub)))},
                 q \in {PostAero(section.airfoil, attackAngle)}})
    ELSE Raised("ValueError")
CoupledFromHub(self, c, uxHub, uyHub, a, aprime) ==
    CoupledFromAngle(self, c.section, uxHub, uyHub,
                     Atan2(uxHub, uyHub) - (c.section.twist + c.pitch), a, aprime)

\* lines 458-488 : res.x is taken as the solution whatever res.success says
CoupledFinish(self, c, a, aprime, w) ==
    Only({CoupledFromHub(self, c, uxHub, uyHub, a, aprime) :
            uxHub \in {UxHub(c.UxPrime, c.UyPrime, c.skew, c.azimuth, a, aprime, w)},
            uyHub \in {UyHub(c.UxPrime, c.UyPrime, c.skew, c.azimuth, a, aprime, w)}})

(***************************************************************************)
(* SpecCoupled : one call of solve on a NingCoupled solver built with the  *)
(* keyword corrections; its solver _uncoupled is the solver of the         *)
(* variables ning, pc, ..., out, and holds the objects of the bundle of    *)
(* the coupled solver                                                      *)
(***************************************************************************)
Skews == {0, 300}

InitCoupled ==
    /\ solverKind = "NingCoupled"
    /\ selection \in UncoupledSelections
    /\ passing = "keyword"
    /\ corrections = BaseBEMInit(selection, 1)
    /\ uncoupled = BaseBEMInit(InnerSelection("keyword", corrections), 2)
    /\ dyn = InstalledInflow(corrections)
    /\ kn = NoOp
    /\ calls = 0
    /\ NoThrust
    /\ NoSolve
    /\ NoSweep
    /\ NoCoupled
    /\ NoDrivers
    /\ NoMisc

\* a keyword argument of a call: its value in kwargs, or the default of the
\* signature
Get(kwargs, name, default) == IF name \in DOMAIN kwargs THEN kwargs[name] ELSE default
NoKwargs == [name \in {} |-> 0]

\* NingCoupled.solve, lines 388-436 : the defaults of the arguments (uInfty,
\* UxPrime and UyPrime are None, skew and tStep 0.0) and the call of
\* self._uncoupled.solve
CoupledEnter(section, azimuth, pitch, velocity, angles, kwargs) ==
    /\ SolveEnter(section, azimuth, pitch, velocity, angles, Get(kwargs, "tStep", 0))
    /\ cargs' = [section |-> section, azimuth |-> azimuth, pitch |-> pitch,
                 velocity |-> velocity, angles |-> angles,
                 uInfty |-> Get(kwargs, "uInfty", velocity[1]),
                 UxPrime |-> Get(kwargs, "UxPrime", velocity[1]),
                 UyPrime |-> Get(kwargs, "UyPrime", velocity[2]),
                 skew |-> Get(kwargs, "skew", 0),
                 tStep |-> Get(kwargs, "tStep", 0)]
    /\ res' = NoResult
    /\ cout' = NoOut
    /\ cpc' = "uncoupled"

\* a call of solve on the coupled solver
CoupledSolveCall(section, azimuth, pitch, velocity, angles, skew, tStep) ==
    /\ cpc = "idle"
    /\ CoupledEnter(section, azimuth, pitch, velocity, angles,
                    [name \in {"skew", "tStep"} |-> IF name = "skew" THEN skew ELSE tStep])
    /\ UNCHANGED <<co, solves, corrVars, knVars, ctVars, swVars, drVars, miscVars>>

\* lines 433-449 : an exception of the uncoupled solve ends the call; else
\* self.update(...) with the arguments of the call
CoupledUpdate ==
    /\ cpc = "uncoupled"
    /\ pc = "idle"
    /\ IF out.status = "raised"
       THEN /\ cout' = out
            /\ cpc' = "done"
            /\ co' = co
       ELSE /\ co' = [co EXCEPT !._uInfty = cargs.uInfty,
                                !._UxPrime = cargs.UxPrime,
                                !._UyPrime = cargs.UyPrime,
                                !._skew = cargs.skew, !._yaw = cargs.angles[1],
                                !._azimuth = cargs.azimuth,
                                !._chord = cargs.section.chord,
                                !._radius = cargs.section.radius,
                                !._angle = cargs.section.twist + cargs.pitch,
                                !._funLift = cargs.section.airfoil,
                                !._funDrag = cargs.section.airfoil]
            /\ cpc' = "minimize"
            /\ cout' = cout
    /\ UNCHANGED <<cargs, res, corrVars, knVars, ctVars, unVars, swVars, drVars, miscVars>>

\* NingCoupled.residuals, line 347 and the terms of lines 350-353 in the wake
\* skew angle
WakeTerms(w) == [angle |-> w, sin |-> Sin(w), cos |-> Cos(w), tanHalf |-> Tan(FDiv(w, 2 * ONE))]
ResidualWake(obj, axialInduction, skew) ==
    Only({WakeTerms(w) : w \in {SkewAngleCall(obj, axialInduction, skew)}})

\* lines 452-456 : res = minimize(...) ; wake is what the evaluation of the
\* residual at the point returned took as wake skew angle
CoupledMinimize ==
    /\ cpc = "minimize"
    /\ \E r \in MinimizeResults(<<out.axialInduction, out.tangentialInduction>>,
                                MinimizeBounds(out.axialInduction, out.tangentialInduction)) :
          res' = [r EXCEPT !.wake = ResidualWake(corrections["skewAngle"], r.x[1],
                                                 co._skew)]
    /\ cpc' = "post"
    /\ UNCHANGED <<co, cargs, cout, corrVars, knVars, ctVars, unVars, swVars, drVars, miscVars>>

\* lines 458-488 : the corrections of the axial induction and the forces
CoupledPost ==
    /\ cpc = "post"
    /\ \E w \in {SkewAngleCall(corrections["skewAngle"], res.x[1], cargs.skew)},
          d \in {DynamicInflowCall(dyn, res.x[1], cargs.velocity[1],
                                   cargs.section.radius, cargs.tStep)} :
         /\ dyn' = d.self
         /\ cout' = IF d.raised THEN Raised("ValueError")
                    ELSE CoupledFinish(co, cargs, d.ret, res.x[2], w)
         /\ res' = [res EXCEPT !.hooks =
                      <<Hook("skewAngle", <<res.x[1], cargs.skew>>, FALSE, w),
                        Hook("dynamicInflow", <<res.x[1], cargs.velocity[1],
                                                cargs.section.radius, cargs.tStep>>,
                             d.raised, d.ret)>>]
    /\ cpc' = "done"
    /\ UNCHANGED <<co, cargs, kn, calls, corrVars, ctVars, unVars, swVars, drVars, miscVars>>

NextCoupled ==
    \/ \E section \in Sections, velocity \in Velocities, skew \in Skews,
          tStep \in TimeSteps :
          CoupledSolveCall(section, 0, 0, <<velocity[1], velocity[2]>>, <<0, 0>>,
                           skew, tStep)
    \/ ResidualsCall
    \/ GotEpsilon
    \/ GotPiOvTwo
    \/ GotMinusEpsilon
    \/ GotMinPiOvFour
    \/ BrentqA
    \/ BrentqB
    \/ BrentqLoop
    \/ BrentqF
    \/ SolvePost
    \/ CoupledUpdate
    \/ CoupledMinimize
    \/ CoupledPost

SpecCoupled == InitCoupled /\ [][NextCoupled]_vars

\* the objects the uncoupled solver uses are those of the coupled solver
SameObjects == \A name \in CategoryNames : uncoupled[name] = corrections[name]

\* C9 : a call of NingCoupled.solve whose minimisation did not converge ends
\* in an error; it does not return forces and inductions
C9_NonConvergenceReported ==
    (cpc = "done" /\ res.ran /\ ~res.success) =>
        /\ cout.status = "raised"
        /\ cout.status # "returned"

(***************************************************************************)
(* bem.py : BaseBEM.pre, BaseBEM.steady ; ning.py : NingCoupled.pre        *)
(***************************************************************************)
\* a dict of Python: Put adds or replaces one key, Update is dict.update
Put(dict, name, val) == [k \in DOMAIN dict \cup {name} |-> IF k = name THEN val ELSE dict[k]]
Update(dict, other) ==
    [k \in DOMAIN dict \cup DOMAIN other |-> IF k \in DOMAIN other THEN other[k] ELSE dict[k]]

\* steady, lines 267-269 : the parameters of self.pre without args and kwargs;
\* BaseBEM.pre(self,*args,**kwargs), NingCoupled.pre(self,section,omega,wind,precone)
PreArgs(kind) ==
    IF kind = "NingCoupled" THEN {"section", "omega", "wind", "precone"} ELSE {}

\* steady, lines 271-275 : the float arguments among locals() at that line
\* (section and velocity are not yet bound there)
SteadyLocals(a) ==
    [azimuth |-> a.azimuth, pitch |-> a.pitch, wind |-> a.wind, omega |-> a.omega,
     precone |-> a.precone]
PreInputs(pre_args, a) ==
    [name \in pre_args \cap DOMAIN SteadyLocals(a) |-> SteadyLocals(a)[name]]

\* steady, lines 283-284
PreInputsOfSection(pre_args, pre_inputs, section, velocity) ==
    Update(Update(pre_inputs,
                  IF "section" \in pre_args THEN Put(NoKwargs, "section", section)
                  ELSE NoKwargs),
           IF "velocity" \in pre_args THEN Put(NoKwargs, "velocity", velocity)
           ELSE NoKwargs)

\* BaseBEM.pre returns {} ; NingCoupled.pre
Pre(kind, in) ==
    IF kind = "NingCoupled"
    THEN [name \in {"UxPrime", "UyPrime"} |->
            IF name = "UxPrime" THEN FMul(in.wind, Cos(in.precone))
            ELSE FMul(FMul(in.omega, in.section.radius), Cos(in.precone))]
    ELSE NoKwargs

\* what steady has called for its i-th section, and what solve returned to it
PreEvent(i, in) == [op |-> "pre", i |-> i, in |-> in]
SteadySolveEvent(i, section, azimuth, pitch, velocity, kwargs) ==
    [op |-> "solve", i |-> i, section |-> section, azimuth |-> azimuth, pitch |-> pitch,
     velocity |-> velocity, kwargs |-> kwargs]
SolveReturnEvent(i, o) == [op |-> "return", i |-> i, out |-> o]

\* steady, lines 257-275
SteadyEnter(azimuth, pitch, wind, omega, angles, precone, elements, kwargs) ==
    \E a \in {[azimuth |-> azimuth, pitch |-> pitch, wind |-> wind, omega |-> omega,
               angles |-> angles, precone |-> precone, elements |-> elements,
               kwargs |-> kwargs]} :
    \E sections \in {SectionsToConsider(RotorSections, elements)} :
       /\ sargs' = a
       /\ sloc' = [sections_to_consider |-> sections,
                   number_sections |-> Len(sections),
                   forces |-> [i \in 1..Len(sections) |-> <<0, 0>>],
                   inductions |-> [i \in 1..Len(sections) |-> <<0, 0>>],
                   pre_args |-> PreArgs(solverKind),
                   pre_inputs |-> PreInputs(PreArgs(solverKind), a),
                   kwargs |-> kwargs, i |-> 1]
       /\ spc' = "loop"

\* steady, lines 277-291 : the velocity of the section, the pre hook of a solver
\* that has one, and the call of solve
SteadyStep ==
    /\ spc = "loop"
    /\ sloc.i <= sloc.number_sections
    /\ \E section \in {sloc.sections_to_consider[sloc.i]} :
       \E v \in {calculateVelocity(sargs.wind, sargs.omega, section.radius,
                                   Float(sargs.azimuth), sargs.angles[1],
                                   sargs.angles[2], sargs.precone)} :
       \E velocity \in {<<v.Ux[1], v.Uy[1]>>} :
       \E in \in {PreInputsOfSection(sloc.pre_args, sloc.pre_inputs, section, velocity)} :
       \E kwargs \in {IF sloc.pre_args # {}
                      THEN Update(sloc.kwargs, Pre(solverKind, in))
                      ELSE sloc.kwargs} :
          /\ IF solverKind = "NingCoupled"
             THEN /\ CoupledEnter(section, sargs.azimuth, sargs.pitch, velocity,
                                  sargs.angles, kwargs)
                  /\ co' = co
             ELSE /\ SolveEnter(section, sargs.azimuth, sargs.pitch, velocity,
                                sargs.angles, Get(kwargs, "tStep", 0))
                  /\ UNCHANGED coVars
          /\ sloc' = [sloc EXCEPT !.pre_inputs = IF sloc.pre_args # {} THEN in ELSE @,
                                  !.kwargs = kwargs]
          /\ log' = log \o (IF sloc.pre_args # {} THEN <<PreEvent(sloc.i, in)>> ELSE <<>>)
                        \o <<SteadySolveEvent(sloc.i, section, sargs.azimuth, sargs.pitch,
                                              velocity, kwargs)>>
    /\ spc' = "solving"
    /\ UNCHANGED <<sargs, cyargs, cyloc, cypc, solves, corrVars, knVars, ctVars,
                   swVars, miscVars>>

\* the call of solve steady waits for has ended
SolveOutcome == IF solverKind = "NingCoupled" THEN cout ELSE out
SolveHasEnded == IF solverKind = "NingCoupled" THEN cpc = "done" ELSE pc = "idle"

\* steady, lines 288-294 : row i of both arrays; an exception of solve ends
\* steady
SteadyStore ==
    /\ spc = "solving"
    /\ SolveHasEnded
    /\ \E o \in {SolveOutcome} :
         IF o.status = "raised"
         THEN /\ spc' = "raised"
              /\ UNCHANGED <<sloc, log>>
         ELSE /\ sloc' = [sloc EXCEPT
                            !.forces[sloc.i] = <<o.normalForce, o.tangentialForce>>,
                            !.inductions[sloc.i] = <<o.axialInduction, o.tangentialInduction>>,
                            !.i = @ + 1]
              /\ log' = Append(log, SolveReturnEvent(sloc.i, o))
              /\ spc' = "loop"
    /\ UNCHANGED <<sargs, cyargs, cyloc, cypc, corrVars, knVars, ctVars, unVars,
                   swVars, coVars, miscVars>>

\* steady, line 296
SteadyReturn ==
    /\ spc = "loop"
    /\ sloc.i > sloc.number_sections
    /\ spc' = "returned"
    /\ UNCHANGED <<sargs, sloc, cyargs, cyloc, cypc, log, corrVars, knVars, ctVars,
                   unVars, swVars, coVars, miscVars>>

(***************************************************************************)
(* SpecSteady : one call of steady on a NingUncoupled or NingCoupled solver*)
(***************************************************************************)
SteadyAzimuths == {0, PI_HALF}
SteadyPrecones == {0, 200}
SteadyElements == {Slice, Indices(<<2>>), Indices(<<2, 1>>), Indices(<<1, 2, 1>>)}
SteadyWinds(kind) == IF kind = "NingCoupled" THEN {25000} ELSE {-5000, 5000, 25000}
SteadyOmegas(kind) == IF kind = "NingCoupled" THEN {1000} ELSE {-4000, 1000}
SteadyKwargs(kind) ==
    IF kind = "NingCoupled" THEN {Put(NoKwargs, "tStep", 100)}
    ELSE {NoKwargs, Put(NoKwargs, "tStep", 100)}

InitSteady == InitUncoupled \/ InitCoupled

\* a call of steady on the solver
SteadyCall(azimuth, pitch, wind, omega, angles, precone, elements, kwargs) ==
    /\ spc = "idle"
    /\ SteadyEnter(azimuth, pitch, wind, omega, angles, precone, elements, kwargs)
    /\ UNCHANGED <<cyargs, cyloc, cypc, log, corrVars, knVars, ctVars, unVars,
                   swVars, coVars, miscVars>>

NextSteady ==
    \/ \E azimuth \in SteadyAzimuths, wind \in SteadyWinds(solverKind),
          omega \in SteadyOmegas(solverKind), precone \in SteadyPrecones,
          elements \in SteadyElements, kwargs \in SteadyKwargs(solverKind) :
          SteadyCall(azimuth, 0, wind, omega, <<0, 0>>, precone, elements, kwargs)
    \/ SteadyStep
    \/ ResidualsCall
    \/ GotEpsilon
    \/ GotPiOvTwo
    \/ GotMinusEpsilon
    \/ GotMinPiOvFour
    \/ BrentqA
    \/ BrentqB
    \/ BrentqLoop
    \/ BrentqF
    \/ SolvePost
    \/ CoupledUpdate
    \/ CoupledMinimize
    \/ CoupledPost
    \/ SteadyStore
    \/ SteadyReturn

SpecSteady == InitSteady /\ [][NextSteady]_vars

(***************************************************************************)
(* Claims on steady                                                        *)
(***************************************************************************)
\* the i-th section the caller selected: blade order for slice(None), else
\* the order of the list
SelectedCount ==
    IF sargs.elements.slice THEN Len(RotorSections) ELSE Len(sargs.elements.indices)
SelectedSection(i) ==
    IF sargs.elements.slice THEN RotorSections[i]
    ELSE RotorSections[sargs.elements.indices[i]]

\* calls steady makes per section: pre (NingCoupled only), solve, and the return
EventsPerSection == IF solverKind = "NingCoupled" THEN 3 ELSE 2

\* the calls of steady for its i-th section, k events each: one solve of the
\* i-th selected section, right after the one pre call if the solver has the
\* hook, and rows i hold what that solve returned
SectionSolvedOnce(i, k) ==
    /\ log[k * i - 1].op = "solve"
    /\ log[k * i - 1].i = i
    /\ log[k * i - 1].section = SelectedSection(i)
    /\ log[k * i].op = "return"
    /\ sloc.forces[i] = <<log[k * i].out.normalForce, log[k * i].out.tangentialForce>>
    /\ sloc.inductions[i] =
          <<log[k * i].out.axialInduction, log[k * i].out.tangentialInduction>>
    /\ k = 3 => /\ log[k * i - 2].op = "pre"
                /\ log[k * i - 2].i = i
                /\ log[k * i - 2].in.section = SelectedSection(i)
                /\ \A name \in {"UxPrime", "UyPrime"} :
                      log[k * i - 1].kwargs[name] = Pre(solverKind, log[k * i - 2].in)[name]

\* C11 : a call of steady that returns has made exactly one solve per selected
\* section, in selection order, each right after the one pre call of a solver
\* with the hook, and row i of both arrays holds what the i-th solve returned
C11_OneSolvePerSection ==
    spc = "returned" =>
        /\ Len(sloc.forces) = SelectedCount
        /\ Len(sloc.inductions) = SelectedCount
        /\ Len(log) = EventsPerSection * SelectedCount
        /\ \A i \in 1..SelectedCount : SectionSolvedOnce(i, EventsPerSection)

\* a NingCoupled solver has returned from steady on the sections 2, 1 in that
\* order, with different rows
C11_Witness ==
    /\ spc = "returned"
    /\ solverKind = "NingCoupled"
    /\ sargs.elements = Indices(<<2, 1>>)
    /\ Len(log) = 6
    /\ log[2].section = RotorSections[2]
    /\ log[5].section = RotorSections[1]
    /\ sloc.forces[1] # sloc.forces[2]
    /\ sloc.forces[1] # <<0, 0>>

(***************************************************************************)
(* bem.py : BaseBEM.cycle                                                  *)
(***************************************************************************)
\* an optional argument: None, or a value
None == <<>>
Some(v) == <<v>>

\* np.ceil of the quotient of two floats, y # 0
CeilDiv(x, y) == -((-x * Sign(y)) \div Abs(y))

\* cycle, lines 413-420 : the azimuthal step, or the error raised;
\* 2.0*np.pi*N/(n_phi - 1) is a division of Python floats
StepFromCount(N, n_phi) ==
    IF n_phi = 1 THEN [error |-> "ZeroDivisionError", line |-> 418, delta_phi |-> 0]
    ELSE [error |-> "", line |-> 418,
          delta_phi |-> FDiv(FMul(TWO_PI, N), (n_phi - 1) * ONE)]
DeltaPhi(a) ==
    IF a.delta_phi # None THEN [error |-> "", line |-> 414, delta_phi |-> a.delta_phi[1]]
    ELSE IF a.dt # None
    THEN [error |-> "", line |-> 416, delta_phi |-> FMul(a.dt[1], a.omega)]
    ELSE IF a.n_phi # None THEN StepFromCount(a.N, a.n_phi[1])
    ELSE [error |-> "ValueError", line |-> 420, delta_phi |-> 0]

\* np.arange(start, stop, step) of floats: ceil((stop - start)/step) values
\* start + k*step, none when that is negative; a zero step is a division by
\* zero
Arange(start, stop, step) ==
    IF step = 0 THEN [error |-> "ZeroDivisionError", values |-> <<>>]
    ELSE [error |-> "",
          values |-> [k \in 1..Max(0, CeilDiv(stop - start, step)) |->
                         start + (k - 1) * step]]

\* cycle, line 422
CycleAzimuths(N, delta_phi) == Arange(0, FMul(N, TWO_PI) + delta_phi, delta_phi)

\* cycle has called steady for its i-th azimuth
SteadyEvent(i, azimuth) == [op |-> "steady", i |-> i, azimuth |-> azimuth]

\* cycle, lines 413-427
CycleBegin(a, d) ==
    IF d.error # ""
    THEN /\ cyloc' = [NoCycleLocals EXCEPT !.error = d.error, !.line = d.line]
         /\ cypc' = "raised"
    ELSE \E az \in {CycleAzimuths(a.N, d.delta_phi)} :
           IF az.error # ""
           THEN /\ cyloc' = [NoCycleLocals EXCEPT !.delta_phi = d.delta_phi,
                                                  !.error = az.error, !.line = 422]
                /\ cypc' = "raised"
           ELSE /\ cyloc' = [NoCycleLocals EXCEPT !.delta_phi = d.delta_phi,
                                                  !.azimuths = az.values,
                                                  !.n_phi = Len(az.values), !.i = 1]
                /\ cypc' = "loop"
CycleCall(pitch, wind, omega, angles, precone, N, dt, delta_phi, n_phi, kwargs) ==
    /\ cypc = "idle"
    /\ \E a \in {[pitch |-> pitch, wind |-> wind, omega |-> omega, angles |-> angles,
                  precone |-> precone, N |-> N, dt |-> dt, delta_phi |-> delta_phi,
                  n_phi |-> n_phi, kwargs |-> kwargs]} :
         /\ cyargs' = a
         /\ CycleBegin(a, DeltaPhi(a))
    /\ UNCHANGED <<sargs, sloc, spc, log, corrVars, knVars, ctVars, unVars, swVars,
                   coVars, miscVars>>

\* cycle, lines 430-434 : the call of steady for the next azimuth
CycleStep ==
    /\ cypc = "loop"
    /\ cyloc.i <= Len(cyloc.azimuths)
    /\ SteadyEnter(cyloc.azimuths[cyloc.i], cyargs.pitch, cyargs.wind, cyargs.omega,
                   cyargs.angles, cyargs.precone, Slice, cyargs.kwargs)
    /\ log' = Append(log, SteadyEvent(cyloc.i, cyloc.azimuths[cyloc.i]))
    /\ cypc' = "steady"
    /\ UNCHANGED <<cyargs, cyloc, corrVars, knVars, ctVars, unVars, swVars, coVars,
                   miscVars>>

\* cycle, lines 431-436 : what steady returned is appended; an exception of
\* steady ends cycle
CycleStore ==
    /\ cypc = "steady"
    /\ spc \in {"returned", "raised"}
    /\ IF spc = "raised"
       THEN /\ cyloc' = [cyloc EXCEPT !.error = SolveOutcome.error, !.line = 431]
            /\ cypc' = "raised"
       ELSE /\ cyloc' = [cyloc EXCEPT !.forces = Append(@, sloc.forces),
                                      !.inductions = Append(@, sloc.inductions),
                                      !.i = @ + 1]
            /\ cypc' = "loop"
    /\ UNCHANGED <<sargs, sloc, spc, cyargs, log, corrVars, knVars, ctVars, unVars,
                   swVars, coVars, miscVars>>

\* cycle, line 439
CycleReturn ==
    /\ cypc = "loop"
    /\ cyloc.i > Len(cyloc.azimuths)
    /\ cypc' = "returned"
    /\ UNCHANGED <<sargs, sloc, spc, cyargs, cyloc, log, corrVars, knVars, ctVars,
                   unVars, swVars, coVars, miscVars>>

(***************************************************************************)
(* SpecCycle : one call of cycle on a NingUncoupled solver                 *)
(***************************************************************************)
CycleSteps == {None, Some(0), Some(PI), Some(-PI)}
CycleTimesteps == {None, Some(2000)}
CycleCounts == {None, Some(1), Some(2)}
CycleOmegas == {-4000, 1000}
CycleWinds == {5000, 25000}
CycleAngles == {<<0, 0>>, <<300, 0>>}
CycleKwargs == {NoKwargs, Put(NoKwargs, "tStep", 100)}

InitCycle == InitUncoupled

NextCycle ==
    \/ \E delta_phi \in CycleSteps, dt \in CycleTimesteps, n_phi \in CycleCounts,
          omega \in CycleOmegas, wind \in CycleWinds, angles \in CycleAngles,
          kwargs \in CycleKwargs :
          CycleCall(0, wind, omega, angles, 0, ONE, dt, delta_phi, n_phi, kwargs)
    \/ CycleStep
    \/ SteadyStep
    \/ ResidualsCall
    \/ GotEpsilon
    \/ GotPiOvTwo
    \/ GotMinusEpsilon
    \/ GotMinPiOvFour
    \/ BrentqA
    \/ BrentqB
    \/ BrentqLoop
    \/ BrentqF
    \/ SolvePost
    \/ SteadyStore
    \/ SteadyReturn
    \/ CycleStore
    \/ CycleReturn

SpecCycle == InitCycle /\ [][NextCycle]_vars

\* the step is delta_phi if given, else dt*omega if dt is given, else
\* 2*pi*N/(n_phi - 1)
StepByPrecedence ==
    (cypc \in {"loop", "steady", "returned"}) =>
        cyloc.delta_phi =
           IF cyargs.delta_phi # None THEN cyargs.delta_phi[1]
           ELSE IF cyargs.dt # None THEN FMul(cyargs.dt[1], cyargs.omega)
           ELSE FDiv(FMul(TWO_PI, cyargs.N), (cyargs.n_phi[1] - 1) * ONE)

\* an error of cycle itself (not one that a call of steady raised) only when
\* delta_phi, dt and n_phi are all None
ErrorOnlyWithoutStep ==
    (cypc = "raised" /\ cyloc.line # 431) =>
        (cyargs.delta_phi = None /\ cyargs.dt = None /\ cyargs.n_phi = None)

\* events of the log per azimuth: the call of steady, then a solve and its
\* return for each of the sections of the blade
EventsPerAzimuth == 1 + 2 * Len(RotorSections)

\* the k-th call of steady is at the k-th azimuth, and the k-th entries hold
\* the rows steady built from what its solves returned
AzimuthSolvedOnce(k) ==
    \E at \in {EventsPerAzimuth * (k - 1) + 1} :
       /\ log[at] = SteadyEvent(k, cyloc.azimuths[k])
       /\ \A i \in 1..Len(RotorSections) :
            /\ log[at + 2 * i - 1].op = "solve"
            /\ log[at + 2 * i - 1].azimuth = cyloc.azimuths[k]
            /\ log[at + 2 * i].op = "return"
            /\ cyloc.forces[k][i] = <<log[at + 2 * i].out.normalForce,
                                      log[at + 2 * i].out.tangentialForce>>
            /\ cyloc.inductions[k][i] = <<log[at + 2 * i].out.axialInduction,
                                          log[at + 2 * i].out.tangentialInduction>>

\* the azimuths start at 0 and increase
AzimuthsIncrease ==
    /\ Len(cyloc.azimuths) > 0 => cyloc.azimuths[1] = 0
    /\ \A k \in 1..(Len(cyloc.azimuths) - 1) : cyloc.azimuths[k] < cyloc.azimuths[k + 1]

OncePerAzimuth ==
    cypc = "returned" =>
        /\ AzimuthsIncrease
        /\ Len(cyloc.forces) = Len(cyloc.azimuths)
        /\ Len(cyloc.inductions) = Len(cyloc.azimuths)
        /\ Len(log) = EventsPerAzimuth * Len(cyloc.azimuths)
        /\ \A k \in 1..Len(cyloc.azimuths) : AzimuthSolvedOnce(k)

\* C12: cycle takes its azimuth step from delta_phi, else from dt (dt*omega),
\* else from n_phi (2*pi*N/(n_phi - 1)), and it fails with an error of its own
\* only when all three are None; it calls steady once per azimuth of the
\* array it returns, in increasing order from 0, and the k-th entries of the
\* returned forces and inductions are what steady returned at the k-th azimuth.
C12_StepThenOnePerAzimuth ==
    /\ StepByPrecedence
    /\ ErrorOnlyWithoutStep
    /\ OncePerAzimuth

(***************************************************************************)
(* Corrections given as a list (SpecCorr)                                  *)
(***************************************************************************)
\* the category class a type is nested in: the family it belongs to
FamilyOfItem(item) == item.qualname[1]

\* positions of the items of the list that belong to the family of a category
ItemsOfFamily(items, name) ==
    {i \in 1..Len(items) : FamilyOfItem(items[i]) = ClassOf(name)}
FirstOfFamily(items, name) ==
    CHOOSE i \in ItemsOfFamily(items, name) : \A j \in ItemsOfFamily(items, name) : i <= j

\* the solver was built from the list the caller gave
BuiltFromList ==
    /\ solverKind # "none"
    /\ passing # "omitted"
    /\ selection.form = "list"

\* what the first item of the family gives: the instance itself, or a new
\* instance of the class, which is none of the caller's objects
InstalledFrom(obj, item) ==
    IF item.isType
    THEN /\ ~obj.isType
         /\ obj.qualname = item.qualname
         /\ \A u \in UserItems : obj.id # u.id
    ELSE obj = item

Protected(key) ==
    CASE key = "Ux" -> "_Ux"
      [] key = "Uy" -> "_Uy"
      [] key = "chord" -> "_chord"
      [] key = "rho" -> "_rho"
      [] key = "pitch" -> "_pitch"

\* hasattr(self, name)
HasAttr(self, name) == name \in DOMAIN self

\* as UpdateLoop, but nothing is written when one of the names is unknown
UpdateAllOrNothing(self, kwargs, i) ==
    IF \E j \in i..Len(kwargs) : ~HasAttr(self, Protected(kwargs[j][1]))
    THEN [self |-> self, applied |-> i - 1, error |-> "ValueError"]
    ELSE [self |-> [a \in DOMAIN self |->
                      IF \E j \in i..Len(kwargs) : Protected(kwargs[j][1]) = a
                      THEN kwargs[CHOOSE j \in i..Len(kwargs) :
                                     Protected(kwargs[j][1]) = a][2]
                      ELSE self[a]],
          applied |-> Len(kwargs), error |-> ""]

\* update, lines 205-209 : the loop over kwargs.items() from the i-th item
\* on; kwargs is the sequence of the <<key, val>> pairs in the order given
RECURSIVE UpdateLoop(_, _, _)
UpdateLoop(self, kwargs, i) ==
    IF i > Len(kwargs) THEN [self |-> self, applied |-> i - 1, error |-> ""]
    ELSE IF HasAttr(self, Protected(kwargs[i][1]))
         THEN UpdateLoop([self EXCEPT ![Protected(kwargs[i][1])] = kwargs[i][2]],
                         kwargs, i + 1)
         ELSE [self |-> self, applied |-> i - 1, error |-> "ValueError"]

\* solver.update(**kwargs)
UpdateCall(kwargs) ==
    /\ upd.status = "none"
    /\ \E r \in {UpdateLoop(ning, kwargs, 1)} :
         /\ ning' = r.self
         /\ upd' = [kwargs |-> kwargs, applied |-> r.applied,
                    status |-> IF r.error = "" THEN "returned" ELSE "raised",
                    error |-> r.error]
    /\ UNCHANGED <<args, pc, ev, loc, bq, out, solves, dm, corrVars, knVars, ctVars,
                   swVars, coVars, drVars>>

(***************************************************************************)
(* SpecUpdate : one call of update on a NingUncoupled solver               *)
(***************************************************************************)
UpdateNames == {"Ux", "Uy", "chord", "rho", "pitch"}
UpdateValues == {1000, 2000}
\* keyword arguments: distinct names, in the order of the call
UpdateKwargs ==
    {kw \in UNION {[1..n -> UpdateNames \X UpdateValues] : n \in 0..MaxNames} :
        \A i, j \in 1..Len(kw) : kw[i][1] = kw[j][1] => i = j}

InitUpdate == InitUncoupled

NextUpdate == \E kwargs \in UpdateKwargs : UpdateCall(kwargs)

SpecUpdate == InitUpdate /\ [][NextUpdate]_vars

\* names of the solver's state attributes among those a caller gives
KnownNames == {"Ux", "Uy", "chord"}
\* the solver state before the call
BeforeUpdate == NingUncoupledInit(Rotor, Epsilon)

\* positions of the unknown names of the call
UnknownAt == {i \in 1..Len(upd.kwargs) : upd.kwargs[i][1] \notin KnownNames}

\* the i-th name of the call was written, or was left as it was
Written(i) == ning[Protected(upd.kwargs[i][1])] = upd.kwargs[i][2]
NotWritten(i) ==
    upd.kwargs[i][1] \in KnownNames =>
        ning[Protected(upd.kwargs[i][1])] = BeforeUpdate[Protected(upd.kwargs[i][1])]

\* C14: update raises exactly when it is given a name the solver has no
\* underscore-prefixed attribute for; at that point every name listed before
\* the first unknown one has been written to the solver state and no name
\* listed after it has (the update is not all-or-nothing); without an
\* unknown name every name is written.
C14_UpdateStopsAtUnknown ==
    /\ upd.status = "raised" <=> UnknownAt # {}
    /\ upd.status = "raised" =>
          \A first \in UnknownAt :
             (\A j \in UnknownAt : first <= j) =>
                 /\ \A i \in 1..(first - 1) : Written(i)
                 /\ \A i \in (first + 1)..Len(upd.kwargs) : NotWritten(i)
                 /\ DOMAIN ning = DOMAIN BeforeUpdate
    /\ upd.status = "returned" => \A i \in 1..Len(upd.kwargs) : Written(i)

\* C14 witness: update(Ux=1, pitch=2, chord=2) raised with Ux written and
\* chord not
C14_Witness ==
    /\ upd.status = "raised"
    /\ upd.kwargs = <<<<"Ux", 1000>>, <<"pitch", 2000>>, <<"chord", 2000>>>>
    /\ ning._Ux = 1000
    /\ ning._chord = 0

(***************************************************************************)
(* Propeller-brake excursions of a solve (SpecUncoupled)                   *)
(***************************************************************************)
\* the last evaluation of the residual took the propeller-brake branch
BrakeBranchEvaluated == ev.n > 0 /\ ~ev.ret.raised /\ ~ev.ret.isMomentumRegion
\* the solve returned with a root of the interval [-pi/4, -eps]
BrakeRootTaken == pc = "idle" /\ out.status = "returned" /\ loc.interval = 2

\* C15: a solve that evaluates the residual outside the momentum region, or
\* takes its root on [-pi/4, -eps], has produced a diagnostic line by then.
C15_BrakeExcursionObservable ==
    /\ BrakeBranchEvaluated => stdout > 0
    /\ BrakeRootTaken => stdout > 0

(***************************************************************************)
(* Solves on one solver with stateless corrections (SpecSteady)            *)
(***************************************************************************)
\* every correction of the solver is a Dummy
StatelessCorrections == selection = SelNone

\* the fields NingUncoupled.residuals reads hold the arguments of the solve
\* call in progress
UncoupledStateFromArgs ==
    /\ ning._Ux = args.velocity[1]
    /\ ning._Uy = args.velocity[2]
    /\ ning._angle = args.section.twist + args.pitch
    /\ ning._funLift = args.section.airfoil
    /\ ning._funDrag = args.section.airfoil
    /\ ning._chord = args.section.chord
    /\ ning._radius = args.section.radius

\* the fields NingCoupled.residuals reads hold the arguments of the solve call
\* in progress
CoupledStateFromArgs ==
    /\ co._uInfty = cargs.uInfty
    /\ co._UxPrime = cargs.UxPrime
    /\ co._UyPrime = cargs.UyPrime
    /\ co._skew = cargs.skew
    /\ co._yaw = cargs.angles[1]
    /\ co._azimuth = cargs.azimuth
    /\ co._chord = cargs.section.chord
    /\ co._radius = cargs.section.radius
    /\ co._angle = cargs.section.twist + cargs.pitch
    /\ co._funLift = cargs.section.airfoil
    /\ co._funDrag = cargs.section.airfoil

\* the solves steady has made so far that returned: positions of their
\* "solve" events in the log
ReturnedSolves ==
    {k \in 1..(Len(log) - 1) : log[k].op = "solve" /\ log[k + 1].op = "return"}
SameArguments(k, l) ==
    /\ log[k].section = log[l].section
    /\ log[k].azimuth = log[l].azimuth
    /\ log[k].pitch = log[l].pitch
    /\ log[k].velocity = log[l].velocity
    /\ log[k].kwargs = log[l].kwargs

\* C16: on a solver whose corrections are all stateless, every state field a
\* solve reads was written from that solve's own arguments before (for the
\* residuals of NingUncoupled and of NingCoupled), two solves of a
\* NingUncoupled solver with the same arguments return the same whatever was
\* solved in between, and the rotor of the solver is left as it was.
C16_SolveIndependentOfHistory ==
    StatelessCorrections =>
        /\ pc \in {"residuals", "post"} => UncoupledStateFromArgs
        /\ cpc \in {"minimize", "post"} => CoupledStateFromArgs
        /\ pc = "post" => /\ ev.n > 0
                          /\ ning._axial_induction = ev.ret.axialInd
                          /\ ning._tangential_induction = ev.ret.tangentialInd
        /\ solverKind = "NingUncoupled" =>
              \A k, l \in ReturnedSolves :
                 SameArguments(k, l) => log[k + 1].out = log[l + 1].out
        /\ ning.rotor = Rotor
        /\ co.rotor = Rotor

\* C16 witness: steady on the sections 1, 2, 1 of a NingUncoupled solver; the
\* first and the third solve returned the same, the second something else
C16_Witness ==
    /\ StatelessCorrections
    /\ solverKind = "NingUncoupled"
    /\ spc = "returned"
    /\ sargs.elements = Indices(<<1, 2, 1>>)
    /\ Len(log) = 6
    /\ log[2].out = log[6].out
    /\ log[2].out # log[4].out
    /\ log[2].out.normalForce # 0

(***************************************************************************)
(* secondary.py : the Dummy classes                                        *)
(* SpecDummy : one call of a new Dummy instance of one of the five classes *)
(***************************************************************************)
\* Dummy()(axialInduction, x, ..., tStep) as solve and residuals call the
\* corrections: x is the yaw angle, the wake skew angle or the velocity; the
\* loss factor takes the inflow angle last
DummyApply(class, axialInduction, x, tStep) ==
    CASE class = "HubTipLoss" ->
            [raised |-> FALSE, self |-> DummyInflow,
             ret |-> HubTipLossDummy(5000, Rotor.nBlades, Rotor.hubRadius,
                                     Rotor.tipRadius, axialInduction)]
      [] class = "SkewAngle" ->
            [raised |-> FALSE, self |-> DummyInflow,
             ret |-> SkewAngleCall(DummyOf(class, 1), axialInduction, x)]
      [] class = "YawModel" ->
            [raised |-> FALSE, self |-> DummyInflow,
             ret |-> YawModelCall(DummyOf(class, 1), axialInduction, x, PI_HALF, 5000,
                                  Rotor.hubRadius, Rotor.tipRadius)]
      [] class = "DynamicInflow" ->
            DynamicInflowCall(DummyInflow, axialInduction, x, 5000, tStep)
      [] class = "TurbulentWakeState" ->
            [raised |-> FALSE, self |-> DummyInflow,
             ret |-> TurbulentWakeStateCall("Dummy", axialInduction, ONE, x)]

DummyCall(class, axialInduction, x, tStep) ==
    /\ dm.status = "none"
    /\ \E r \in {DummyApply(class, axialInduction, x, tStep)} :
         /\ dm' = [class |-> class, arguments |-> <<axialInduction, x, tStep>>,
                   status |-> IF r.raised THEN "raised" ELSE "returned", ret |-> r.ret]
         /\ dyn' = r.self
    /\ UNCHANGED <<kn, calls, upd, corrVars, ctVars, unVars, swVars, coVars, drVars>>

DummyInductions == {-500, 0, 300, 1000, 1500}
DummySeconds == {0, 300, 5000}
DummyTimeSteps == {0, 100}

InitDummy == InitCorr

NextDummy ==
    \E class \in {SecondaryClasses[k] : k \in 1..Len(SecondaryClasses)},
       axialInduction \in DummyInductions,
       x \in DummySeconds, tStep \in DummyTimeSteps :
       DummyCall(class, axialInduction, x, tStep)

SpecDummy == InitDummy /\ [][NextDummy]_vars

\* C17: a call of a Dummy correction never fails, also not DynamicInflow.Dummy
\* for a zero timestep, and leaves no state behind; HubTipLoss.Dummy returns
\* 1.0, SkewAngle.Dummy, YawModel.Dummy and DynamicInflow.Dummy return the
\* axial induction they were given, and TurbulentWakeState.Dummy the base
\* thrust coefficient.
C17_DummyIsNoOp ==
    dm.status # "none" =>
        /\ dm.status = "returned"
        /\ dyn = DummyInflow
        /\ dm.class = "HubTipLoss" => dm.ret = ONE
        /\ dm.class \in {"SkewAngle", "YawModel", "DynamicInflow"} =>
              dm.ret = dm.arguments[1]
        /\ dm.class = "TurbulentWakeState" =>
              dm.ret = CT(dm.arguments[1], ONE, dm.arguments[2])

\* C17 witness: DynamicInflow.Dummy called with a zero timestep returned the
\* axial induction 0.3
C17_Witness ==
    /\ dm.status = "returned"
    /\ dm.class = "DynamicInflow"
    /\ dm.arguments = <<300, 5000, 0>>
    /\ dm.ret = 300

(***************************************************************************)
(* SpecThrust : one call of the static method BaseBEM.CT                   *)
(***************************************************************************)
\* BaseBEM.CT(a, F, chi)
CTCall(a, F, chi) ==
    /\ ct.op = "none"
    /\ ct' = [op |-> "CT", variant |-> "", a |-> a, F |-> F, chi |-> chi,
              value |-> CT(a, F, chi), printed |-> 0, branch |-> ""]
    /\ UNCHANGED <<stdout, corrVars, knVars, unVars, swVars, coVars, drVars, miscVars>>

\* every a of [0, 0.4] to three decimals, and some beyond
ThrustInductions == 0..400 \cup {700, 1000, 1500}
ThrustLossFactors == {ONE, 800}
ThrustSkews == {0, 524}

InitThrust == InitCt

NextThrust ==
    \E a \in ThrustInductions, F \in ThrustLossFactors, chi \in ThrustSkews :
        CTCall(a, F, chi)

SpecThrust == InitThrust /\ [][NextThrust]_vars

TestAngles == <<ning.epsilon, PI_HALF, -ning.epsilon, -PI_QUARTER>>

\* the last evaluation of the residual was at an angle of the k-th interval
EvaluatedWithin(k) ==
    /\ SearchInterval(k)[1] <= ev.last
    /\ ev.last <= SearchInterval(k)[2]

\* brentq was entered on the k-th interval
SearchedOn(k) == bq.xa = SearchInterval(k)[1] /\ bq.xb = SearchInterval(k)[2]

\* before an interval is picked the residual is evaluated at eps, pi/2, -eps
\* and -pi/4 in this order, and no further
TestsInOrder ==
    (loc.interval = 0 /\ ev.n > 0) => (ev.n <= 4 /\ ev.last = TestAngles[ev.n])

\* [eps, pi/2] is searched after the two evaluations at its ends gave opposite
\* signs, and no angle outside of it is evaluated
FirstInterval ==
    loc.interval = 1 =>
        /\ OppositeSigns(ning.epsilon, PI_HALF)
        /\ SearchedOn(1)
        /\ ev.n >= 2
        /\ EvaluatedWithin(1)

\* [-pi/4, -eps] is searched after the first test failed and the evaluations
\* at its ends gave opposite signs
SecondInterval ==
    loc.interval = 2 =>
        /\ ~OppositeSigns(ning.epsilon, PI_HALF)
        /\ OppositeSigns(-PI_QUARTER, -ning.epsilon)
        /\ SearchedOn(2)
        /\ ev.n >= 4
        /\ EvaluatedWithin(2)

\* [pi/2, pi - eps] is searched after both tests failed, whatever the signs
\* at its ends
ThirdInterval ==
    loc.interval = 3 =>
        /\ ~OppositeSigns(ning.epsilon, PI_HALF)
        /\ ~OppositeSigns(-PI_QUARTER, -ning.epsilon)
        /\ SearchedOn(3)
        /\ ev.n >= 4
        /\ ev.n > 4 => EvaluatedWithin(3)

\* C19: a solve evaluates the residual at eps and pi/2 and searches
\* [eps, pi/2] if the signs are strictly opposite, evaluating no negative
\* angle; else it evaluates at -eps and -pi/4 and searches [-pi/4, -eps] if
\* those signs are strictly opposite; else it searches [pi/2, pi - eps]
\* without a test. The interval picked is kept until the solve has ended.
C19_OneIntervalInSequence ==
    /\ [](TestsInOrder /\ FirstInterval /\ SecondInterval /\ ThirdInterval)
    /\ [][(loc.interval # 0 /\ pc # "idle") => loc'.interval = loc.interval]_vars

\* C19 witness: a solve that returned a root of the third interval, which had
\* a sign change, after evaluations inside that interval
C19_Witness ==
    /\ pc = "idle"
    /\ out.status = "returned"
    /\ loc.interval = 3
    /\ ev.n > 6
    /\ OppositeSigns(PI_HALF, PI - ning.epsilon)

(***************************************************************************)
(* The corrections of the axial induction after the root-find              *)
(* (SpecUncoupled)                                                         *)
(***************************************************************************)
\* the post-processing of the solve has run
PostProcessed == pc = "idle" /\ loc.hooks # <<>>

\* the three corrections were called once each, in the order of the claim
HooksInOrder ==
    /\ Len(loc.hooks) = 3
    /\ loc.hooks[1].name = "skewAngle"
    /\ loc.hooks[2].name = "yawModel"
    /\ loc.hooks[3].name = "dynamicInflow"

\* what each correction was given: the a the root-find left and the yaw
\* angle, then that a and the wake skew angle, then the output of YawModel
HooksChained ==
    /\ loc.hooks[1].arguments = <<ev.ret.axialInd, args.angles[1]>>
    /\ loc.hooks[2].arguments[1] = ev.ret.axialInd
    /\ loc.hooks[2].arguments[2] = loc.hooks[1].ret
    /\ ~loc.hooks[2].raised
    /\ loc.hooks[3].arguments[1] = loc.hooks[2].ret

\* the output of DynamicInflow is the a of the solver, of the forces and of
\* the return value; the tangential induction is the one of the root-find
HooksResult ==
    ~loc.hooks[3].raised =>
        /\ ning._axial_induction = loc.hooks[3].ret
        /\ ning._tangential_induction = ev.ret.tangentialInd
        /\ out = SolveFinish(ning, args.section, args.pitch, args.velocity)
        /\ out.axialInduction = loc.hooks[3].ret
        /\ out.tangentialInduction = ev.ret.tangentialInd

\* C20: after the root-find solve calls SkewAngle, YawModel and DynamicInflow
\* once each and in this order; SkewAngle is given a and the yaw angle,
\* YawModel a and the result of SkewAngle, DynamicInflow the output of
\* YawModel, and the output of DynamicInflow is the a solve returns and
\* computes the forces with; the tangential induction is left as it was.
C20_CorrectionsInOrder ==
    PostProcessed => (HooksInOrder /\ HooksChained /\ HooksResult)

(***************************************************************************)
(* The call of the YawModel by solve (SpecUncoupled)                       *)
(***************************************************************************)
\* the call of the installed YawModel made by the post-processing
YawModelHook == loc.hooks[2]

\* C21: the call solve makes, YawModel(a, wakeSkew, azimuth, radius,
\* hubRadius, tipRadius), is accepted by the installed variant, Dummy or
\* PittAndPeters, and solve does not fail on the call itself.
C21_YawModelCallAccepted ==
    PostProcessed =>
        /\ Len(loc.hooks) >= 2
        /\ YawModelHook.name = "yawModel"
        /\ Len(YawModelHook.arguments) = 6
        /\ ~YawModelHook.raised
        /\ out.error # "TypeError"

(***************************************************************************)
(* The DynamicInflow calls of one NingCoupled.solve (SpecCoupled)          *)
(***************************************************************************)
\* the calls of DynamicInflow among the recorded calls of a post-processing
InflowHooks(hooks) == SelectSeq(hooks, LAMBDA h : h.name = "dynamicInflow")

\* the call of the coupled solve returned
CoupledReturned == cpc = "done" /\ cout.status = "returned"

\* the filter as the first call left it: a Knudsen filter stores what it
\* returns
AfterFirstStep(first) ==
    IF dyn.variant = "Knudsen"
    THEN [InstalledInflow(corrections) EXCEPT !.alphaDynamic = first.ret]
    ELSE InstalledInflow(corrections)

\* the second call of the filter started from the value the first one left
SecondStepFromFirst(first, second) ==
    \E d \in {DynamicInflowCall(AfterFirstStep(first), second.arguments[1],
                                second.arguments[2], second.arguments[3],
                                second.arguments[4])} :
       /\ second.ret = d.ret
       /\ dyn = d.self

\* C22: a call of NingCoupled.solve that returns has called the DynamicInflow
\* instance twice, once in the uncoupled solve of the warm start, which ran
\* once and had ended before the minimisation, and once in the
\* post-processing after it; the second call started from the value the first
\* one left in the filter.
C22_TwoFilterStepsPerSolve ==
    /\ [](CoupledReturned =>
            /\ SameObjects
            /\ Len(InflowHooks(loc.hooks)) = 1
            /\ Len(InflowHooks(res.hooks)) = 1
            /\ res.ran
            /\ SecondStepFromFirst(InflowHooks(loc.hooks)[1], InflowHooks(res.hooks)[1]))
    /\ [](cpc \in {"minimize", "post"} =>
            /\ pc = "idle"
            /\ out.status = "returned"
            /\ Len(InflowHooks(loc.hooks)) = 1
            /\ res.hooks = <<>>)
    /\ [][(cpc \in {"minimize", "post"}) => UNCHANGED <<loc, out>>]_vars

\* C22 witness: a coupled solve with a Knudsen filter returned; the filter
\* moved in the warm start and again in the post-processing
C22_Witness ==
    /\ CoupledReturned
    /\ dyn.variant = "Knudsen"
    /\ InflowHooks(loc.hooks)[1].ret # InstalledInflow(corrections).alphaDynamic
    /\ dyn.alphaDynamic # InflowHooks(loc.hooks)[1].ret

\* ---------------------------------------------------------------------
\* Post-processing of the coupled solve against the uncoupled one

\* the names of the corrections a post-processing called, in call order
HookNames(hooks) == [k \in 1..Len(hooks) |-> hooks[k].name]

\* C23: a coupled solve that returned post-processed the minimiser's axial
\* induction with the same corrections, each once and in the same order, as
\* the uncoupled solve of its warm start did with its root: skewAngle, then
\* yawModel, then dynamicInflow
C23_CoupledPostAsUncoupled ==
    CoupledReturned =>
        /\ HookNames(loc.hooks) = <<"skewAngle", "yawModel", "dynamicInflow">>
        /\ HookNames(res.hooks) = HookNames(loc.hooks)

\* ---------------------------------------------------------------------
\* The filter value across the solves of steady and of cycle

\* what the solves of the driver returned so far, in call order
ReturnEvents == SelectSeq(log, LAMBDA e : e.op = "return")
LastReturn == ReturnEvents[Len(ReturnEvents)]

\* the call h of a Knudsen filter moved one step from the value start
KnudsenStepFrom(start, h) ==
    h.ret = Mul(Mul(h.arguments[4], KnudsenKappa(dyn, h.arguments[2], h.arguments[3])),
                h.arguments[1] - start) + start

\* the post-processing of a solve called the filter, and the filter took it
FilterStep ==
    /\ pc = "post"
    /\ pc' = "idle"
    /\ dyn.variant = "Knudsen"
    /\ InflowHooks(loc'.hooks) # <<>>
    /\ ~InflowHooks(loc'.hooks)[1].raised

\* C24: the filter value belongs to the correction instance, not to a section:
\* in a cycle on a solver with a Knudsen filter, every solve of steady moves
\* the one stored value a step from where it stands, nothing else changes it
\* (no restart), and while a later section or a later azimuth is solved the
\* stored value is the one the solve before returned
C24_FilterCarriedAcrossSolves ==
    /\ [][FilterStep => /\ KnudsenStepFrom(dyn.alphaDynamic, InflowHooks(loc'.hooks)[1])
                        /\ dyn'.alphaDynamic = InflowHooks(loc'.hooks)[1].ret]_vars
    /\ [][(pc # "post") => dyn' = dyn]_vars
    /\ []((dyn.variant = "Knudsen" /\ ReturnEvents # <<>> /\ spc = "solving" /\ pc # "idle")
            => dyn.alphaDynamic = LastReturn.out.axialInduction)

\* C24 witness: a cycle over two azimuths with a Knudsen filter and a time
\* step returned; the solves returned different values and the filter is away
\* from its initial value
C24_Witness ==
    /\ cypc = "returned"
    /\ dyn.variant = "Knudsen"
    /\ Len(cyloc.azimuths) >= 2
    /\ Len(ReturnEvents) >= 4
    /\ dyn.alphaDynamic # dyn._alpha0
    /\ ReturnEvents[2].out.axialInduction # ReturnEvents[3].out.axialInduction
    /\ ReturnEvents[1].out.axialInduction # ReturnEvents[2].out.axialInduction

\* ---------------------------------------------------------------------
\* The restarts of dynamic

RestartEvents == SelectSeq(trace, LAMBDA e : e.op = "restart")

\* the first step of the series of section i is being solved
FirstStepOf(i) == dpc = "solving" /\ pc # "idle" /\ sweep.i = i /\ sweep.ii = 1

\* C25: dynamic restarts the corrections after the series of a section and
\* not before the first one: the first series starts from the filter value
\* the call found, each later series from the initial value; when dynamic
\* returns the filter is at its initial value, and when a solve raised the
\* restarts made are those of the sections before and none followed the
\* failing solve: the filter holds what the last solve that returned left
C25_RestartAfterSeriesOnly ==
    /\ (trace # <<>> /\ SeriesLength > 0) => trace[1].op = "solve"
    /\ FirstStepOf(1) => dyn.alphaDynamic = sweep.left
    /\ \A i \in 2..sweep.number_sections :
          FirstStepOf(i) => dyn.alphaDynamic = dyn._alpha0
    /\ dpc = "returned" => dyn.alphaDynamic = dyn._alpha0
    /\ dpc = "raised" =>
          /\ trace[Len(trace)] = SolveEvent(sweep.i, sweep.ii)
          /\ Len(RestartEvents) = sweep.i - 1
          /\ (dyn.variant = "Knudsen" /\ sweep.ii > 1) =>
                dyn.alphaDynamic = factors[<<sweep.i, sweep.ii - 1>>][1]

\* C25 witness: dynamic was called on a solver whose Knudsen filter an earlier
\* solve had moved, went through two sections of at least two steps each and
\* returned; both restarts found the filter away from its initial value
C25_Witness ==
    /\ dpc = "returned"
    /\ dyn.variant = "Knudsen"
    /\ solves > 0
    /\ sweep.left # dyn._alpha0
    /\ sweep.number_sections = 2
    /\ SeriesLength >= 2
    /\ Len(RestartEvents) = 2
    /\ \A k \in 1..2 : RestartEvents[k].was # dyn._alpha0

\* ---------------------------------------------------------------------
\* The steps of dynamic against steady

\* the inputs of the step dynamic is at: azimuth, pitch, wind, omega
StepInputs == Zip(sweep.inputs)[sweep.ii]

\* the velocity steady computes for a section at one azimuth, and the one
\* dynamic computes at the step (line 359)
VelocityAtAzimuth(section, z) ==
    calculateVelocity(z[3], z[4], section.radius, Float(z[1]), 0, 0, 0)
VelocityOfStep(section, z) ==
    calculateVelocity(z[3], z[4], section.radius, dynamicArgs.azimuth, 0, 0, 0)

\* C26: while dynamic has solve work on step k of a section, solve was given
\* the k-th azimuth and the k-th pitch, and the velocity computed from the
\* k-th wind, the k-th omega and the k-th azimuth at the radius of the section
C26_StepLikeSteady ==
    dpc = "solving" =>
        \E kth \in {VelocityAtAzimuth(args.section, StepInputs)},
           given \in {VelocityOfStep(args.section, StepInputs)} :
           /\ args.section = sweep.sections_to_consider[sweep.i]
           /\ args.azimuth = StepInputs[1]
           /\ args.pitch = StepInputs[2]
           /\ given.Ux = kth.Ux
           /\ given.Uy = kth.Uy
           /\ args.velocity = <<kth.Ux[1], kth.Uy[1]>>

(***************************************************************************)
(* SpecInductions : lines 108-148 of NingUncoupled.residuals on given      *)
(* values of kappa and kappaPrime                                          *)
(***************************************************************************)
Kappas ==
    {-BIG, -3000, -1001, -1000, -999, -900, -500, -1, 0, 1, 300, 666, 667, 700, 999,
     1000, 1001, 1500, 1999, 2000, 2001, 3000, BIG}
KappaPrimes == {-BIG, -3000, -1, 0, 1, 500, 666, 667, 999, 1000, 1001, 2000, 3000, BIG}
InflowAngles == {-PI_QUARTER, -Epsilon, 0, Epsilon, PI_HALF}
AxialVelocities == {-5000, 0, 5000}

InitInductions == InitUncoupled

\* residuals from line 108 on, kappa and kappaPrime being what lines 105-106
\* gave: the inductions are stored, the value returned is left out
InductionsCall(Ux, inflowAngle, kappa, kappaPrime) ==
    /\ ev.n = 0
    /\ \E self \in {[ning EXCEPT !._Ux = Ux]} :
       \E i \in {ResInductions(self, inflowAngle, [F |-> ONE],
                               [kappa |-> kappa, kappaPrime |-> kappaPrime])} :
         /\ ning' = [self EXCEPT !._axial_induction = i.axialInd,
                                 !._tangential_induction = i.tangentialInd]
         /\ ev' = [ev EXCEPT !.n = 1, !.last = inflowAngle,
                             !.ret = [NoRes EXCEPT
                                        !.axialInd = i.axialInd,
                                        !.tangentialInd = i.tangentialInd,
                                        !.kappa = kappa, !.kappaPrime = kappaPrime,
                                        !.isMomentumRegion = i.isMomentumRegion,
                                        !.isValidSolution = i.isValidSolution]]
    /\ UNCHANGED <<args, pc, loc, bq, out, solves, corrVars, knVars, ctVars, swVars,
                   coVars, drVars, miscVars>>

NextInductions ==
    \E Ux \in AxialVelocities, inflowAngle \in InflowAngles, kappa \in Kappas,
       kappaPrime \in KappaPrimes :
       InductionsCall(Ux, inflowAngle, kappa, kappaPrime)

SpecInductions == InitInductions /\ [][NextInductions]_vars

\* the regions of the evaluation made, from its inputs
Evaluated == ev.n > 0
InMomentumRegion ==
    (ev.last >= 0 /\ ning._Ux >= 0) \/ (ev.last < 0 /\ ning._Ux < 0)
InvalidSolution ==
    \/ InMomentumRegion /\ ev.ret.kappa < -ONE
    \/ ~InMomentumRegion /\ ev.ret.kappa <= ONE

\* kappaPrime as line 144 divides it, and the sign of kappaPrime/(1 - kappaPrime)
SignedKappaPrime == IF ning._Ux <= 0 THEN -ev.ret.kappaPrime ELSE ev.ret.kappaPrime
SignOfRatio(kp) == IF kp = 0 THEN 0 ELSE IF kp > 0 /\ kp <= ONE THEN 1 ELSE -1

\* C27: after an evaluation of the residual, an invalid solution (momentum
\* region with kappa < -1, brake region with kappa <= 1) has stored a = 0 and
\* a' = 0; otherwise the stored a' is at most 2.0 in magnitude with the sign
\* of kappa'/(1 - kappa'), kappa' negated first when Ux <= 0, and in the
\* brake region the stored a is above 1 and at most 2.0
C27_StoredInductions ==
    Evaluated =>
        IF InvalidSolution
        THEN ning._axial_induction = 0 /\ ning._tangential_induction = 0
        ELSE /\ Abs(ning._tangential_induction) <= 2 * ONE
             /\ Sign(ning._tangential_induction) = SignOfRatio(SignedKappaPrime)
             /\ ~InMomentumRegion =>
                   (ning._axial_induction > ONE /\ ning._axial_induction <= 2 * ONE)

\* C27 witness: a valid evaluation in the brake region whose two inductions
\* were both cut to 2.0 in magnitude, the tangential one negative
C27_Witness ==
    /\ Evaluated
    /\ ~InvalidSolution
    /\ ~InMomentumRegion
    /\ ev.ret.kappa < 2 * ONE
    /\ ning._axial_induction = 2 * ONE
    /\ ning._tangential_induction = -2 * ONE

\* C28: after an evaluation of the residual, in the momentum region as in the
\* brake region, the stored axial induction and the stored tangential
\* induction are both at most 2.0 in magnitude
C28_BothInductionsBounded ==
    Evaluated =>
        /\ Abs(ning._axial_induction) <= 2 * ONE
        /\ Abs(ning._tangential_induction) <= 2 * ONE

\* ---------------------------------------------------------------------
\* The mapping form of the selection

\* the solver was constructed from a mapping
BuiltFromDict == solverKind # "none" /\ selection.form = "dict"

\* obj is what the constructor makes of the value given: the instance itself,
\* or a new instance of the class
InstalledAs(obj, given) ==
    /\ ~obj.isType
    /\ obj.qualname = given.qualname
    /\ ~given.isType => obj = given

\* C29: the mapping form validates nothing: a key that names no category
\* leaves no attribute and the five categories are all set, and the value of
\* a category key is installed under that category whatever family it belongs
\* to, be it no correction at all; the categories without a key hold their
\* own Dummy
C29_MappingNotValidated ==
    BuiltFromDict =>
        /\ DOMAIN corrections = CategoryNames
        /\ \A name \in CategoryNames :
              IF name \in DOMAIN selection.map
              THEN InstalledAs(corrections[name], selection.map[name])
              ELSE IsOwnDummy(corrections[name], name)

\* C29 witness: a mapping with the unknown key tipLoss and a Knudsen filter
\* under skewAngle: the filter is the skewAngle correction of the solver
C29_Witness ==
    /\ BuiltFromDict
    /\ DOMAIN selection.map = {"tipLoss", "skewAngle"}
    /\ selection.map["skewAngle"] = KnudsenA
    /\ corrections["skewAngle"] = KnudsenA
    /\ FamilyOfItem(corrections["skewAngle"]) # "SkewAngle"
    /\ "tipLoss" \notin DOMAIN corrections

\* ---------------------------------------------------------------------
\* The wake skew angle of the coupled solver

\* the minimisation of a coupled solve has ended ; its post-processing has
CoupledMinimized == cpc \in {"post", "done"} /\ res.ran
CoupledPostDone == cpc = "done" /\ res.ran /\ res.hooks # <<>>
DummySkew == corrections["skewAngle"].qualname = <<"SkewAngle", "Dummy">>
BurtonSkew == corrections["skewAngle"].qualname = <<"SkewAngle", "Burton">>

\* C30: with the Dummy SkewAngle and skew = 0 the wake skew angle of the
\* coupled residual and of the coupled post-processing is the axial induction
\* a handed to the correction: sin, cos and tan(./2) are taken at a, the
\* angle is nonzero when a is, and the forces returned are those computed
\* with it; with Burton and skew = 0 the angle is zero
C30_DummyWakeSkewIsInduction ==
    /\ (CoupledMinimized /\ cargs.skew = 0 /\ DummySkew) =>
          /\ co._skew = 0
          /\ res.wake = WakeTerms(res.x[1])
          /\ res.x[1] # 0 => res.wake.angle # 0
    /\ (CoupledPostDone /\ cargs.skew = 0 /\ DummySkew) =>
          /\ res.hooks[1].name = "skewAngle"
          /\ res.hooks[1].ret = res.x[1]
          /\ cout.status = "returned" =>
                cout = CoupledFinish(co, cargs, res.hooks[2].ret, res.x[2], res.x[1])
    /\ (CoupledMinimized /\ cargs.skew = 0 /\ BurtonSkew) => res.wake.angle = 0
    /\ (CoupledPostDone /\ cargs.skew = 0 /\ BurtonSkew) => res.hooks[1].ret = 0

\* C30 witness: a coupled solve with the Dummy SkewAngle and skew = 0 returned
\* for a nonzero axial induction: the sine of the wake skew angle is not zero
C30_Witness ==
    /\ CoupledPostDone
    /\ cout.status = "returned"
    /\ DummySkew
    /\ cargs.skew = 0
    /\ res.x[1] # 0
    /\ res.wake.sin # 0
    /\ res.hooks[1].ret = res.x[1]
    /\ cout # CoupledFinish(co, cargs, res.hooks[2].ret, res.x[2], 0)
====
